---- MODULE Spec2Model ----
(***************************************************************************)
(* A model of the `permissible` authorization layer: PermDef evaluation,   *)
(* CompositePermDef, the PermissibleMixin facade, and the PermDomain /     *)
(* PermRole role propagation.                                              *)
(*                                                                         *)
(* Python values are encoded as follows.                                   *)
(*  - A model instance is a record [cls, pk, is_public]; pk = 0 stands for *)
(*    a falsy primary key (None on an unsaved instance), which is the only *)
(*    thing the code tests (`not obj.pk`).  None is NoneObj.               *)
(*  - A permission codename "app.short_model" is the record of its parts   *)
(*    [app, short, model]; app = "" when the app label is left out.        *)
(*  - The outcome of a call is a string: "True", "False" or the name of    *)
(*    the exception it raises.                                             *)
(***************************************************************************)
EXTENDS Integers, Sequences, FiniteSets, TLC

VARIABLES
    userPerms,   \* permission store: <<user id, permission, object key>> direct grants
    groupPerms,  \* permission store: <<group id, permission, object key>> group grants
    userGroups,  \* group membership: <<user id, group id>>
    call,        \* the last call made and its outcome
    lhs,         \* a permission definition held by the caller (left operand)
    rhs,         \* a permission definition held by the caller (right operand)
    model_cfg,   \* the protected model class: its two perm maps and its mode
    domains,     \* saved PermDomain rows (primary keys)
    permRoles,   \* PermRole rows [group_id, role, domain]
    groups,      \* Group rows (primary keys)
    group_seq,   \* the last primary key the database gave to a Group row
    parent_of,   \* HierarchicalPermRoot rows: primary key -> parent_id (0 is None)
    pending,     \* the steps the running resets and saves have still to make
    members,     \* PermDomainMember rows: <<user id, domain>>
    ops          \* the number of calls made on the hierarchy so far

vars == <<userPerms, groupPerms, userGroups, call, lhs, rhs, model_cfg,
          domains, permRoles, groups, group_seq, parent_of, pending, members,
          ops>>

-----------------------------------------------------------------------------
(* Bounds of the model *)

MaxPk == 1
MaxUser == 1
MaxNodes == 4
MaxDomain == 2
MaxNode == 3
MaxOps == 4
MaxCalls == 2

-----------------------------------------------------------------------------
(* Values *)

AppLabel == "permissible"
ModelNames == {"doc", "team"}

NoneObj == [cls |-> "NoneType", pk |-> 0, is_public |-> FALSE]
Objs == [cls : ModelNames, pk : 0..MaxPk, is_public : BOOLEAN]

\* Python truthiness of an object reference: only None is falsy
Truthy(o) == o.cls # "NoneType"

\* the store is keyed by the object; None keys the class-level (global) grants
ObjKey(o) == <<o.cls, o.pk>>

\* a subject of a check: the object itself and the related object its getter reaches
Subjects == [obj : {o \in Objs : o.cls = "doc"}, root : Objs \cup {NoneObj}]
NoSubject == [obj |-> NoneObj, root |-> NoneObj]

\* user id 0 is the anonymous user (pk None), who is never a superuser
Users == {u \in [id : 0..MaxUser, is_superuser : BOOLEAN] : u.id = 0 => ~u.is_superuser}
PlainUsers == {u \in Users : ~u.is_superuser}

Contexts == [flag : BOOLEAN]

Return(v) == [exc |-> "", val |-> v]
Raise(e) == [exc |-> e, val |-> NoneObj]
Bool(b) == IF b THEN "True" ELSE "False"

-----------------------------------------------------------------------------
(* ShortPermsMixin *)

get_permission_codename(cls, short_permission, include_app_label) ==
    [app |-> IF include_app_label THEN AppLabel ELSE "",
     short |-> short_permission,
     model |-> cls]

get_permission_codenames(cls, short_permissions, include_app_label) ==
    [i \in 1..Len(short_permissions) |->
        get_permission_codename(cls, short_permissions[i], include_app_label)]

\* the Permission row a codename names: the app label is only a qualifier
PermOf(codename) == [short |-> codename.short, model |-> codename.model]

-----------------------------------------------------------------------------
(* The user abstraction: has_perms over the permission store *)

has_perm(user, perm, obj) ==
    \/ <<user.id, PermOf(perm), ObjKey(obj)>> \in userPerms
    \/ \E ug \in userGroups :
          /\ ug[1] = user.id
          /\ <<ug[2], PermOf(perm), ObjKey(obj)>> \in groupPerms

has_perms(user, perms, obj) ==
    \A i \in 1..Len(perms) : has_perm(user, perms[i], obj)

-----------------------------------------------------------------------------
(* PermDef *)

NoCodes == [none |-> TRUE, list |-> <<>>]
CodeList(l) == [none |-> FALSE, list |-> l]
CodeLists == {<<>>, <<"view">>, <<"change">>, <<"view", "change">>}

Getters == {"none", "lambda_root", "str_get_root"}
Conditions == {"none", "is_public", "is_authenticated", "ctx_flag"}

PermDef(short_perm_codes, obj_getter, condition_checker) ==
    [operator |-> "leaf", perm_defs |-> <<>>,
     short_perm_codes |-> short_perm_codes,
     obj_getter |-> obj_getter,
     condition_checker |-> condition_checker]

PermDefs == {PermDef(c, g, k) :
                c \in {NoCodes} \cup {CodeList(l) : l \in CodeLists},
                g \in Getters, k \in Conditions}

get_obj(pd, subj, context) ==
    IF pd.obj_getter # "none"
    THEN IF pd.obj_getter = "str_get_root"
         THEN \* getattr(obj, self.obj_getter)(context), after `assert obj`
              IF ~Truthy(subj.obj) THEN Raise("AssertionError")
              ELSE Return(subj.root)
         ELSE \* lambda o, c: o.root
              IF ~Truthy(subj.obj) THEN Raise("AttributeError")
              ELSE Return(subj.root)
    ELSE Return(subj.obj)

check_condition(pd, obj, user, context) ==
    IF pd.condition_checker = "none" THEN "True"
    ELSE IF pd.condition_checker = "is_public"
         THEN \* lambda o, u, c: o.is_public
              IF ~Truthy(obj) THEN "AttributeError" ELSE Bool(obj.is_public)
    ELSE IF pd.condition_checker = "is_authenticated"
         THEN \* lambda o, u, c: bool(u.pk)
              Bool(user.id # 0)
    ELSE \* lambda o, u, c: c.flag
         Bool(context.flag)

\* PermDef._check without the persisted-identity test of an object-level check
PermDef_check_NoPkTest(pd, must_check_obj, subj, obj_class, user, context) ==
    LET got == get_obj(pd, subj, context) IN
    IF got.exc # "" THEN got.exc
    ELSE LET obj == got.val IN
         LET obj_check_passes == check_condition(pd, obj, user, context) IN
         IF obj_check_passes \notin {"True", "False"} THEN obj_check_passes
         ELSE LET has ==
                    IF pd.short_perm_codes.none THEN TRUE
                    ELSE has_perms(user,
                             get_permission_codenames(obj_class,
                                 pd.short_perm_codes.list, TRUE),
                             obj)
              IN IF has /\ obj_check_passes = "True" THEN "True" ELSE "False"

PermDef_check(pd, must_check_obj, subj, obj_class, user, context) ==
    LET got == get_obj(pd, subj, context) IN
    IF got.exc # "" THEN got.exc
    ELSE LET obj == got.val IN
         IF must_check_obj /\ (~Truthy(obj) \/ obj.pk = 0) THEN "False"
         ELSE LET obj_check_passes == check_condition(pd, obj, user, context) IN
              IF obj_check_passes \notin {"True", "False"} THEN obj_check_passes
              ELSE LET has ==
                         IF pd.short_perm_codes.none THEN TRUE
                         ELSE has_perms(user,
                                  get_permission_codenames(obj_class,
                                      pd.short_perm_codes.list, TRUE),
                                  obj)
                   IN IF has /\ obj_check_passes = "True" THEN "True" ELSE "False"

PermDef_check_global(pd, obj_class, user, context) ==
    PermDef_check(pd, FALSE, NoSubject, obj_class, user, context)

PermDef_check_obj(pd, subj, user, context) ==
    PermDef_check(pd, TRUE, subj, subj.obj.cls, user, context)

-----------------------------------------------------------------------------
(* CompositePermDef *)

Operators == {"and", "or", "xor"}

\* CompositePermDef.__init__: it never runs PermDef.__init__, so a composite has
\* no codes, getter or condition of its own
CompositePermDef(perm_defs, operator) ==
    IF operator \notin {"and", "or"}
    THEN [exc |-> "ValueError", val |-> PermDef(NoCodes, "none", "none")]
    ELSE [exc |-> "",
          val |-> [operator |-> operator, perm_defs |-> perm_defs,
                   short_perm_codes |-> NoCodes,
                   obj_getter |-> "none",
                   condition_checker |-> "none"]]

\* any() over the children's outcomes, left to right: the first true child
\* decides, and a child that raises before it propagates
RECURSIVE any(_)
any_EmptyIsTrue(results) ==
    IF results = <<>> THEN "True"
    ELSE IF Head(results) = "False" THEN any(Tail(results))
    ELSE Head(results)

any(results) ==
    IF results = <<>> THEN "False"
    ELSE IF Head(results) = "False" THEN any(Tail(results))
    ELSE Head(results)

\* all() over the children's outcomes: the first false child decides
RECURSIVE all(_)
all(results) ==
    IF results = <<>> THEN "True"
    ELSE IF Head(results) = "True" THEN all(Tail(results))
    ELSE Head(results)

RECURSIVE check_global(_, _, _, _)
RECURSIVE check_obj(_, _, _, _)

CompositePermDef_check_global(pd, obj_class, user, context) ==
    LET results == [i \in 1..Len(pd.perm_defs) |->
                        check_global(pd.perm_defs[i], obj_class, user, context)]
    IN IF pd.operator = "or" THEN any(results) ELSE all(results)

CompositePermDef_check_obj(pd, subj, user, context) ==
    LET results == [i \in 1..Len(pd.perm_defs) |->
                        check_obj(pd.perm_defs[i], subj, user, context)]
    IN IF pd.operator = "or" THEN any(results) ELSE all(results)

\* method dispatch on the class of the definition
check_global(pd, obj_class, user, context) ==
    IF pd.operator = "leaf"
    THEN PermDef_check_global(pd, obj_class, user, context)
    ELSE CompositePermDef_check_global(pd, obj_class, user, context)

check_obj(pd, subj, user, context) ==
    IF pd.operator = "leaf"
    THEN PermDef_check_obj(pd, subj, user, context)
    ELSE CompositePermDef_check_obj(pd, subj, user, context)

\* `self | other` without the flattening of an "or" self
CompositePermDef__or__NoFlatten(self, other) ==
    CompositePermDef(<<self, other>>, "or").val

CompositePermDef__or__(self, other) ==
    LET new_list == IF self.operator = "or"
                    THEN self.perm_defs \o <<other>>
                    ELSE <<self, other>>
    IN CompositePermDef(new_list, "or").val

CompositePermDef__and__(self, other) ==
    LET new_list == IF self.operator = "and"
                    THEN self.perm_defs \o <<other>>
                    ELSE <<self, other>>
    IN CompositePermDef(new_list, "and").val

-----------------------------------------------------------------------------
(* PermissibleMixin *)

\* the value of a perm-map entry: None, or a list of PermDefs
NoneValue == [none |-> TRUE, list |-> <<>>]
PermDefList(l) == [none |-> FALSE, list |-> l]

ALLOW_ALL == NoneValue
DENY_ALL == PermDefList(<<>>)
IS_AUTHENTICATED == PermDef(NoCodes, "none", "is_authenticated")
IS_PUBLIC == PermDef(NoCodes, "none", "is_public")

Actions == {"create", "retrieve"}

\* a dict keyed by action: each action is a key of the dict or not
Absent == [present |-> FALSE, value |-> NoneValue]
Entry(v) == [present |-> TRUE, value |-> v]
EmptyMap == [a \in Actions |-> Absent]

\* `not d` of a dict
IsEmptyDict(d) == \A a \in Actions : ~d[a].present

\* d.get(action, None)
dict_get(d, action) == IF d[action].present THEN d[action].value ELSE NoneValue

\* the loop `for perm_def in perm_defs` of has_global_permission
RECURSIVE check_perm_defs_on_class(_, _, _, _, _)
check_perm_defs_on_class(mode, obj_class, user, perm_defs, context) ==
    IF perm_defs = <<>>
    THEN IF mode = "ALL" THEN "True" ELSE "False"
    ELSE LET check_passes == check_global(Head(perm_defs), obj_class, user, context)
         IN IF check_passes \notin {"True", "False"} THEN check_passes
            ELSE IF mode = "ALL" /\ check_passes = "False" THEN "False"
            ELSE IF mode = "ANY" /\ check_passes = "True" THEN "True"
            ELSE check_perm_defs_on_class(mode, obj_class, user, Tail(perm_defs),
                                          context)

has_global_permission(cfg, cls, user, action, context) ==
    IF user.is_superuser THEN "True"
    ELSE LET perm_defs == dict_get(cfg.global_action_perm_map, action) IN
         IF perm_defs.none THEN "True"
         ELSE \* get_room_perm_class returns cls
              check_perm_defs_on_class(cfg.perm_def_mode, cls, user,
                                       perm_defs.list, context)

RECURSIVE check_perm_defs_on_obj(_, _, _, _, _)
check_perm_defs_on_obj(mode, obj, user, perm_defs, context) ==
    IF perm_defs = <<>>
    THEN IF mode = "ALL" THEN "True" ELSE "False"
    ELSE LET check_passes == check_obj(Head(perm_defs), obj, user, context)
         IN IF check_passes \notin {"True", "False"} THEN check_passes
            ELSE IF mode = "ALL" /\ check_passes = "False" THEN "False"
            ELSE IF mode = "ANY" /\ check_passes = "True" THEN "True"
            ELSE check_perm_defs_on_obj(mode, obj, user, Tail(perm_defs), context)

check_perm_defs(self, mode, user, perm_defs, context) ==
    check_perm_defs_on_obj(mode, self, user, perm_defs, context)

\* the default get_root_perm_object
get_root_perm_object(self, context) == self

\* has_object_permission with the persisted-object test ahead of the lookup
has_object_permission_SavedOnly(cfg, self, user, action, context) ==
    IF IsEmptyDict(cfg.global_action_perm_map) /\ IsEmptyDict(cfg.obj_action_perm_map)
    THEN "NotImplementedError"
    ELSE IF user.is_superuser THEN "True"
    ELSE IF self.obj.pk = 0 THEN "False"
    ELSE LET perm_defs == dict_get(cfg.obj_action_perm_map, action) IN
         IF perm_defs.none THEN "True"
         ELSE check_perm_defs(self, cfg.perm_def_mode, user, perm_defs.list, context)

has_object_permission(cfg, self, user, action, context) ==
    IF IsEmptyDict(cfg.global_action_perm_map) /\ IsEmptyDict(cfg.obj_action_perm_map)
    THEN "NotImplementedError"
    ELSE IF user.is_superuser THEN "True"
    ELSE LET perm_defs == dict_get(cfg.obj_action_perm_map, action) IN
         IF perm_defs.none THEN "True"
         ELSE LET room_perm_object == get_root_perm_object(self, context) IN
              IF ~Truthy(room_perm_object.obj) THEN "False"
              ELSE check_perm_defs(room_perm_object, cfg.perm_def_mode, user,
                                   perm_defs.list, context)

-----------------------------------------------------------------------------
(* PermissiblePerms (the REST framework permission class) *)

\* has_object_permission without the is_authenticated test
PermissiblePerms_has_object_permission_NoAuthTest(cfg, obj, adding, user, view_action, context) ==
    LET result == has_object_permission(cfg, obj, user, view_action, context) IN
    IF result \notin {"True", "False"} THEN result
    ELSE IF result = "False"
    THEN IF adding THEN "False"
         ELSE IF view_action \in {"retrieve"} THEN "Http404"
         ELSE LET retrieve == has_object_permission(cfg, obj, user, "retrieve", context) IN
              IF retrieve \notin {"True", "False"} THEN retrieve
              ELSE IF retrieve = "False" THEN "Http404"
              ELSE "False"
    ELSE "True"

\* PermissiblePerms.has_object_permission(request, view, obj): "True" allows,
\* "False" is the explicit denial, "Http404" the raised Not Found; adding is
\* obj._state.adding and request.user.is_authenticated is a non-anonymous user
PermissiblePerms_has_object_permission(cfg, obj, adding, user, view_action, context) ==
    LET result == has_object_permission(cfg, obj, user, view_action, context) IN
    IF result \notin {"True", "False"} THEN result
    ELSE IF result = "False"
    THEN IF user.id = 0 THEN "False"
         ELSE IF adding THEN "False"
         ELSE IF view_action \in {"retrieve"} THEN "Http404"
         ELSE LET retrieve == has_object_permission(cfg, obj, user, "retrieve", context) IN
              IF retrieve \notin {"True", "False"} THEN retrieve
              ELSE IF retrieve = "False" THEN "Http404"
              ELSE "False"
    ELSE "True"

-----------------------------------------------------------------------------
(* PermDomain / PermRole *)

ROLE_DEFINITIONS ==
    [mem |-> <<>>,
     view |-> <<"view">>,
     con |-> <<"view", "add_on", "change_on", "change">>,
     adm |-> <<"view", "add_on", "change_on", "change", "change_permission">>,
     own |-> <<"view", "add_on", "change_on", "change", "change_permission",
               "delete">>]

\* the choices of the role field, in the order of ROLE_DEFINITIONS
role_choices == <<"mem", "view", "con", "adm", "own">>

\* the PermDomain instance with primary key d (a Team)
DomainObj(d) == [cls |-> "team", pk |-> d, is_public |-> FALSE]

\* the rows and grants a handler reads and writes
Db(pr, g, gp, seq) == [permRoles |-> pr, groups |-> g, groupPerms |-> gp, group_seq |-> seq]

\* guardian: the codenames (without app label) a group holds on an object
get_group_perms(gp, group, obj) ==
    {[app |-> "", short |-> x[2].short, model |-> x[2].model] :
        x \in {y \in gp : y[1] = group /\ y[3] = ObjKey(obj)}}

\* guardian: assign_perm / remove_perm of a set of codenames
assign_perms(gp, perms, group, obj) ==
    gp \cup {<<group, PermOf(perm), ObjKey(obj)>> : perm \in perms}

remove_perms(gp, perms, group, obj) ==
    gp \ {<<group, PermOf(perm), ObjKey(obj)>> : perm \in perms}

\* update_permissions_for_object with the two deltas exchanged
update_permissions_for_object_Swapped(gp, obj, group, short_perm_codes) ==
    LET codenames == get_permission_codenames(obj.cls, short_perm_codes, FALSE)
        expected_perms == {codenames[i] : i \in 1..Len(codenames)}
        current_perms == get_group_perms(gp, group, obj)
        permissions_to_add == current_perms \ expected_perms
        permissions_to_remove == expected_perms \ current_perms
    IN remove_perms(assign_perms(gp, permissions_to_add, group, obj),
                    permissions_to_remove, group, obj)

\* update_permissions_for_object that reads and removes what any group holds on
\* the object
update_permissions_for_object_AnyGroup(gp, obj, group, short_perm_codes) ==
    LET codenames == get_permission_codenames(obj.cls, short_perm_codes, FALSE)
        expected_perms == {codenames[i] : i \in 1..Len(codenames)}
        current_perms == UNION {get_group_perms(gp, x[1], obj) : x \in gp}
        permissions_to_add == expected_perms \ current_perms
        permissions_to_remove == current_perms \ expected_perms
    IN {x \in assign_perms(gp, permissions_to_add, group, obj) :
            ~(x[3] = ObjKey(obj) /\ \E perm \in permissions_to_remove : x[2] = PermOf(perm))}

update_permissions_for_object(gp, obj, group, short_perm_codes) ==
    LET codenames == get_permission_codenames(obj.cls, short_perm_codes, FALSE)
        expected_perms == {codenames[i] : i \in 1..Len(codenames)}
        current_perms == get_group_perms(gp, group, obj)
        permissions_to_add == expected_perms \ current_perms
        permissions_to_remove == current_perms \ expected_perms
    IN remove_perms(assign_perms(gp, permissions_to_add, group, obj),
                    permissions_to_remove, group, obj)

\* removes every grant the group holds on objects of the class
clear_permissions_for_class(gp, group, obj_class) ==
    {x \in gp : ~(x[1] = group /\ x[3][1] = obj_class /\ x[3] # ObjKey(NoneObj))}

\* PermDomain.get_permission_targets: yield self
get_permission_targets(d) == <<DomainObj(d)>>

RECURSIVE update_targets(_, _, _, _)
update_targets(gp, targets, group, short_perm_codes) ==
    IF targets = <<>> THEN gp
    ELSE update_targets(
             update_permissions_for_object(gp, Head(targets), group, short_perm_codes),
             Tail(targets), group, short_perm_codes)

reset_permissions_for_group(gp, self, clear_existing) ==
    LET root_obj == DomainObj(self.domain)
        cleared == IF clear_existing
                   THEN clear_permissions_for_class(gp, self.group_id, root_obj.cls)
                   ELSE gp
        short_perm_codes == ROLE_DEFINITIONS[self.role]
    IN update_targets(cleared, get_permission_targets(self.domain), self.group_id,
                      short_perm_codes)

\* PermRole.save: the row's primary key is its group_id; 0 is an unset group_id
PermRole_save(db, self) ==
    LET group_pk == db.group_seq + 1
        saved == IF self.group_id = 0 THEN [self EXCEPT !.group_id = group_pk] ELSE self
        groups1 == IF self.group_id = 0 THEN db.groups \cup {group_pk} ELSE db.groups
        seq1 == IF self.group_id = 0 THEN group_pk ELSE db.group_seq
    IN Db({r \in db.permRoles : r.group_id # saved.group_id} \cup {saved},
          groups1,
          reset_permissions_for_group(db.groupPerms, saved, FALSE),
          seq1)

\* objects.create in place of objects.get_or_create
get_or_create_AlwaysCreate(db, role, d) ==
    LET db1 == PermRole_save(db, [group_id |-> 0, role |-> role, domain |-> d])
    IN [db |-> db1, created |-> TRUE, exc |-> "",
        obj |-> [group_id |-> db1.group_seq, role |-> role, domain |-> d]]

\* PermRole.objects.get_or_create(role=role, <domain>=self)
get_or_create(db, role, d) ==
    LET found == {r \in db.permRoles : r.role = role /\ r.domain = d} IN
    IF Cardinality(found) > 1
    THEN [db |-> db, created |-> FALSE, exc |-> "MultipleObjectsReturned",
          obj |-> CHOOSE r \in found : TRUE]
    ELSE IF found # {}
    THEN [db |-> db, created |-> FALSE, exc |-> "", obj |-> CHOOSE r \in found : TRUE]
    ELSE LET db1 == PermRole_save(db, [group_id |-> 0, role |-> role, domain |-> d])
         IN [db |-> db1, created |-> TRUE, exc |-> "",
             obj |-> [group_id |-> db1.group_seq, role |-> role, domain |-> d]]

\* the loop `for role, _ in role_choices` of reset_perm_groups; an exception
\* ends it and keeps what the earlier iterations wrote
RECURSIVE reset_perm_groups_for(_, _, _)
reset_perm_groups_for(db, d, roles) ==
    IF roles = <<>> THEN db
    ELSE LET got == get_or_create(db, Head(roles), d) IN
         IF got.exc # "" THEN got.db
         ELSE LET db1 ==
                    IF ~got.created
                    THEN [got.db EXCEPT !.groupPerms =
                              reset_permissions_for_group(@, got.obj, TRUE)]
                    ELSE got.db
              IN reset_perm_groups_for(db1, d, Tail(roles))

reset_perm_groups(db, d) == reset_perm_groups_for(db, d, role_choices)

\* PermDomain.save of the instance with primary key d
PermDomain_save(db, adding, d) ==
    IF adding THEN reset_perm_groups(db, d) ELSE db

-----------------------------------------------------------------------------
(* PermRoot / PermRootGroup / HierarchicalPermRoot *)

\* models/utils.py: update_permissions_for_object. The expected codenames
\* are built with the class's default include_app_label, the current ones
\* come from guardian without app label, and the two sets are compared as
\* strings.
utils_update_permissions_for_object(gp, obj, group, short_perm_codes) ==
    LET codenames == get_permission_codenames(obj.cls, short_perm_codes, TRUE)
        expected_perms == {codenames[i] : i \in 1..Len(codenames)}
        current_perms == get_group_perms(gp, group, obj)
        permissions_to_add == expected_perms \ current_perms
        permissions_to_remove == current_perms \ expected_perms
    IN remove_perms(assign_perms(gp, permissions_to_add, group, obj),
                    permissions_to_remove, group, obj)

\* the elements of a set of primary keys in ascending order
RECURSIVE order_by_pk(_)
order_by_pk(S) ==
    IF S = {} THEN <<>>
    ELSE LET m == CHOOSE x \in S : \A y \in S : x <= y
         IN <<m>> \o order_by_pk(S \ {m})

\* self.children.all(): the saved rows whose parent_id is n
children(parents, nodes, n) == {c \in nodes : parents[c] = n}

\* get_permission_targets that yields self and its children, not their own
\* targets
HierarchicalPermRoot_get_permission_targets_ChildrenOnly(parents, nodes, n) ==
    LET kids == order_by_pk(children(parents, nodes, n))
    IN <<DomainObj(n)>> \o [i \in 1..Len(kids) |-> DomainObj(kids[i])]

\* HierarchicalPermRoot.get_permission_targets: yield self, then yield from
\* each child's get_permission_targets()
RECURSIVE HierarchicalPermRoot_get_permission_targets(_, _, _)
RECURSIVE yield_from_children(_, _, _)
HierarchicalPermRoot_get_permission_targets(parents, nodes, n) ==
    <<DomainObj(n)>> \o
        yield_from_children(parents, nodes, order_by_pk(children(parents, nodes, n)))

yield_from_children(parents, nodes, kids) ==
    IF kids = <<>> THEN <<>>
    ELSE HierarchicalPermRoot_get_permission_targets(parents, nodes, Head(kids)) \o
         yield_from_children(parents, nodes, Tail(kids))

\* HierarchicalPermRoot.get_ancestor_ids_from_id: walk the stored parent ids
\* upward from parent_id; 0 is None, and a missing row ends the walk
RECURSIVE get_ancestor_ids_from_id(_, _, _)
get_ancestor_ids_from_id(parents, nodes, current_id) ==
    IF current_id = 0 THEN {}
    ELSE {current_id} \cup
         get_ancestor_ids_from_id(parents, nodes,
                                  IF current_id \in nodes THEN parents[current_id] ELSE 0)

\* PermRootGroup.reset_permissions_for_group: one update per permission target
RECURSIVE PermRootGroup_update_targets(_, _, _, _)
PermRootGroup_update_targets(gp, targets, group, short_perm_codes) ==
    IF targets = <<>> THEN gp
    ELSE PermRootGroup_update_targets(
             utils_update_permissions_for_object(gp, Head(targets), group,
                                                 short_perm_codes),
             Tail(targets), group, short_perm_codes)

PermRootGroup_reset_permissions_for_group(gp, parents, nodes, self) ==
    PermRootGroup_update_targets(
        gp, HierarchicalPermRoot_get_permission_targets(parents, nodes, self.domain),
        self.group_id, ROLE_DEFINITIONS[self.role])

\* PermRootGroup.save: create the Group if there is none, reset its
\* permissions, write the row
PermRootGroup_save(db, parents, nodes, self) ==
    LET group_pk == db.group_seq + 1
        saved == IF self.group_id = 0 THEN [self EXCEPT !.group_id = group_pk] ELSE self
        groups1 == IF self.group_id = 0 THEN db.groups \cup {group_pk} ELSE db.groups
        seq1 == IF self.group_id = 0 THEN group_pk ELSE db.group_seq
    IN Db({r \in db.permRoles : r.group_id # saved.group_id} \cup {saved},
          groups1,
          PermRootGroup_reset_permissions_for_group(db.groupPerms, parents, nodes, saved),
          seq1)

\* PermRoot.reset_perm_groups: get_or_create the PermRootGroup of every role
\* and reset the permissions of the ones that existed
RECURSIVE PermRoot_reset_perm_groups_for(_, _, _, _, _)
PermRoot_reset_perm_groups_for(db, parents, nodes, n, roles) ==
    IF roles = <<>> THEN db
    ELSE LET found == {r \in db.permRoles : r.role = Head(roles) /\ r.domain = n}
             db1 == IF found = {}
                    THEN PermRootGroup_save(db, parents, nodes,
                             [group_id |-> 0, role |-> Head(roles), domain |-> n])
                    ELSE [db EXCEPT !.groupPerms =
                             PermRootGroup_reset_permissions_for_group(
                                 @, parents, nodes, CHOOSE r \in found : TRUE)]
         IN PermRoot_reset_perm_groups_for(db1, parents, nodes, n, Tail(roles))

PermRoot_reset_perm_groups(db, parents, nodes, n) ==
    PermRoot_reset_perm_groups_for(db, parents, nodes, n, role_choices)

\* ancestor.reset_perm_groups() for each ancestor of the queryset in turn
RECURSIVE reset_ancestors(_, _, _, _)
reset_ancestors(db, parents, nodes, ancestors) ==
    IF ancestors = <<>> THEN db
    ELSE reset_ancestors(PermRoot_reset_perm_groups(db, parents, nodes, Head(ancestors)),
                         parents, nodes, Tail(ancestors))

\* HierarchicalPermRoot.save that resets every old and every new ancestor
HierarchicalPermRoot_save_BothChains(db, parents, nodes, n, parent_id) ==
    LET adding == n \notin nodes
        old_parent_id == IF adding THEN 0 ELSE parents[n]
        parents1 == [parents EXCEPT ![n] = parent_id]
        nodes1 == nodes \cup {n}
        db1 == IF adding THEN PermRoot_reset_perm_groups(db, parents1, nodes1, n) ELSE db
        own_resets == IF adding THEN <<n>> ELSE <<>>
        ancestors == order_by_pk(
                         (get_ancestor_ids_from_id(parents1, nodes1, old_parent_id) \cup
                          get_ancestor_ids_from_id(parents1, nodes1, parent_id)) \cap nodes1)
    IN [db |-> reset_ancestors(db1, parents1, nodes1, ancestors),
        parents |-> parents1, nodes |-> nodes1, exc |-> "",
        resets |-> own_resets \o ancestors]

\* HierarchicalPermRoot.save that computes and asserts the difference of the
\* ancestor sets whether or not the parent id changed
HierarchicalPermRoot_save_AlwaysDiff(db, parents, nodes, n, parent_id) ==
    LET adding == n \notin nodes
        old_parent_id == IF adding THEN 0 ELSE parents[n]
        parents1 == [parents EXCEPT ![n] = parent_id]
        nodes1 == nodes \cup {n}
        db1 == IF adding THEN PermRoot_reset_perm_groups(db, parents1, nodes1, n) ELSE db
        own_resets == IF adding THEN <<n>> ELSE <<>>
        old_ancestor_ids == get_ancestor_ids_from_id(parents1, nodes1, old_parent_id)
        new_ancestor_ids == get_ancestor_ids_from_id(parents1, nodes1, parent_id)
        diff_ids == (old_ancestor_ids \ new_ancestor_ids) \cup
                    (new_ancestor_ids \ old_ancestor_ids)
        ancestors == order_by_pk(diff_ids \cap nodes1)
    IN IF diff_ids = {}
       THEN [db |-> db1, parents |-> parents1, nodes |-> nodes1,
             exc |-> "AssertionError", resets |-> own_resets]
       ELSE [db |-> reset_ancestors(db1, parents1, nodes1, ancestors),
             parents |-> parents1, nodes |-> nodes1, exc |-> "",
             resets |-> own_resets \o ancestors]

\* HierarchicalPermRoot.save that takes the old ancestors that are not new
\* ancestors in place of the symmetric difference
HierarchicalPermRoot_save_OldMinusNew(db, parents, nodes, n, parent_id) ==
    LET adding == n \notin nodes
        old_parent_id == IF adding THEN 0 ELSE parents[n]
        parents1 == [parents EXCEPT ![n] = parent_id]
        nodes1 == nodes \cup {n}
        db1 == IF adding THEN PermRoot_reset_perm_groups(db, parents1, nodes1, n) ELSE db
        own_resets == IF adding THEN <<n>> ELSE <<>>
        old_ancestor_ids == get_ancestor_ids_from_id(parents1, nodes1, old_parent_id)
        new_ancestor_ids == get_ancestor_ids_from_id(parents1, nodes1, parent_id)
        diff_ids == old_ancestor_ids \ new_ancestor_ids
        ancestors == order_by_pk(diff_ids \cap nodes1)
    IN IF old_parent_id = parent_id
       THEN [db |-> db1, parents |-> parents1, nodes |-> nodes1, exc |-> "",
             resets |-> own_resets]
       ELSE IF diff_ids = {}
       THEN [db |-> db1, parents |-> parents1, nodes |-> nodes1,
             exc |-> "AssertionError", resets |-> own_resets]
       ELSE [db |-> reset_ancestors(db1, parents1, nodes1, ancestors),
             parents |-> parents1, nodes |-> nodes1, exc |-> "",
             resets |-> own_resets \o ancestors]

\* HierarchicalPermRoot.save of the node n with self.parent_id = parent_id.
\* The result holds the rows after the save, the exception raised ("" for
\* none) and the nodes reset_perm_groups() was called on, in call order.
HierarchicalPermRoot_save(db, parents, nodes, n, parent_id) ==
    LET adding == n \notin nodes
        old_parent_id == IF adding THEN 0 ELSE parents[n]
        \* super().save(): PermRoot.save writes the row, then resets the
        \* groups of a new node
        parents1 == [parents EXCEPT ![n] = parent_id]
        nodes1 == nodes \cup {n}
        db1 == IF adding THEN PermRoot_reset_perm_groups(db, parents1, nodes1, n) ELSE db
        own_resets == IF adding THEN <<n>> ELSE <<>>
        old_ancestor_ids == get_ancestor_ids_from_id(parents1, nodes1, old_parent_id)
        new_ancestor_ids == get_ancestor_ids_from_id(parents1, nodes1, parent_id)
        diff_ids == (old_ancestor_ids \ new_ancestor_ids) \cup
                    (new_ancestor_ids \ old_ancestor_ids)
        ancestors == order_by_pk(diff_ids \cap nodes1)
    IN IF old_parent_id = parent_id
       THEN [db |-> db1, parents |-> parents1, nodes |-> nodes1, exc |-> "",
             resets |-> own_resets]
       ELSE IF diff_ids = {}
       THEN [db |-> db1, parents |-> parents1, nodes |-> nodes1,
             exc |-> "AssertionError", resets |-> own_resets]
       ELSE [db |-> reset_ancestors(db1, parents1, nodes1, ancestors),
             parents |-> parents1, nodes |-> nodes1, exc |-> "",
             resets |-> own_resets \o ancestors]

-----------------------------------------------------------------------------
(* signals: PermDomainMember rows follow the m2m_changed signal of the       *)
(* user-group relation                                                       *)

\* signals.post_group_membership_changed, called with the relation as it is
\* after the change. instance is the primary key of the object the change was
\* made through, model the class of the objects named by pk_set.
post_group_membership_changed(mem, ug, rows, action, instance, model, pk_set) ==
    LET user == instance IN
    IF model # "Group" THEN mem
    ELSE IF action \notin {"post_add", "post_remove", "post_clear"} THEN mem
    ELSE IF action = "post_clear" THEN {x \in mem : x[1] # user}
    ELSE LET root_ids == {r.domain : r \in {q \in rows : q.group_id \in pk_set}}
             num_related_user_groups(root_id) ==
                 Cardinality({r \in rows : r.domain = root_id
                                            /\ <<user, r.group_id>> \in ug})
         IN IF action = "post_add"
            THEN mem \cup {<<user, root_id>> : root_id \in root_ids}
            ELSE mem \ {<<user, root_id>> :
                            root_id \in {d \in root_ids : num_related_user_groups(d) = 0}}

-----------------------------------------------------------------------------
(* PermRole deletion *)

\* Group.delete(): the row goes, and with it (on_delete=CASCADE) the PermRole
\* that owns it, the group's object permissions and its memberships
Group_delete(db, ug, group) ==
    [db |-> Db({r \in db.permRoles : r.group_id # group},
               db.groups \ {group},
               {x \in db.groupPerms : x[1] # group},
               db.group_seq),
     userGroups |-> {x \in ug : x[2] # group}]

\* PermRole.delete() of a saved row. The post_delete receiver is a function
\* local to __init_subclass__ that is connected with the default weak=True:
\* it runs only if it is still alive when the signal is sent.
PermRole_delete(db, ug, self, receiver_alive) ==
    LET db1 == [db EXCEPT !.permRoles = @ \ {self}]
    IN IF receiver_alive
       THEN Group_delete(db1, ug, self.group_id)
       ELSE [db |-> db1, userGroups |-> ug]

-----------------------------------------------------------------------------
(* DomainOwnedPermMixin: models whose permissions are checked on the domain *)
(* their PERM_DOMAIN_ATTR_PATH foreign key points to                        *)

\* get_unretrieved for a single-level path: an instance with the key as pk, None
\* for a null key (domain_id = 0)
get_unretrieved(domain_id) ==
    IF domain_id = 0 THEN NoneObj ELSE DomainObj(domain_id)

\* get_domain(): the domain, or the ValueError raised when there is none
DomainOwnedPermMixin_get_domain(domain_id) ==
    LET domain == get_unretrieved(domain_id) IN
    IF ~Truthy(domain) THEN [exc |-> "ValueError", obj |-> NoneObj]
    ELSE [exc |-> "", obj |-> domain]

\* get_root_perm_object() of a domain-owned model
DomainOwnedPermMixin_get_root_perm_object(domain_id) ==
    DomainOwnedPermMixin_get_domain(domain_id)

\* DefaultDomainOwnedPermMixin: no global policy for the actions, one
\* definition per action on the object map
DefaultDomainOwnedCfg ==
    [global_action_perm_map |-> EmptyMap,
     obj_action_perm_map |->
        [a \in Actions |->
            Entry(PermDefList(<<PermDef(
                CodeList(<<IF a = "create" THEN "add_on" ELSE "view">>),
                "none", "none")>>))],
     perm_def_mode |-> "ANY"]

\* has_object_permission of a domain-owned model, whose root object is the
\* domain of get_root_perm_object()
DomainOwned_has_object_permission(cfg, domain_id, user, action, context) ==
    IF user.is_superuser THEN "True"
    ELSE LET perm_defs == dict_get(cfg.obj_action_perm_map, action) IN
         IF perm_defs.none THEN "True"
         ELSE LET room_perm_object == DomainOwnedPermMixin_get_root_perm_object(domain_id) IN
              IF room_perm_object.exc # "" THEN room_perm_object.exc
              ELSE IF ~Truthy(room_perm_object.obj) THEN "False"
              ELSE check_perm_defs([obj |-> room_perm_object.obj, root |-> NoneObj],
                                   cfg.perm_def_mode, user, perm_defs.list, context)

-----------------------------------------------------------------------------
(* Idle values of the state each specification leaves alone *)

NoCall == [op |-> "none"]
NoParents == <<>>
NoPending == <<>>
NoRow == [group_id |-> 0, role |-> "mem", domain |-> 0]
NoPermDef == PermDef(NoCodes, "none", "none")
NoCfg == [global_action_perm_map |-> EmptyMap, obj_action_perm_map |-> EmptyMap,
          perm_def_mode |-> "ANY"]

-----------------------------------------------------------------------------
(* Specification SpecPermDef: PermDef.check_obj / check_global over a store *)

Perm(short, model) == [short |-> short, model |-> model]

\* direct grants the store may hold for user 1 (guardian ties a permission to the
\* content type of the object it is granted on)
SeedGrants ==
    { <<1, Perm("view", "doc"), <<"doc", 1>> >>,
      <<1, Perm("change", "doc"), <<"doc", 1>> >>,
      <<1, Perm("view", "team"), <<"team", 1>> >>,
      <<1, Perm("change", "team"), <<"team", 1>> >>,
      <<1, Perm("view", "doc"), ObjKey(NoneObj)>> }

InitPermDef ==
    /\ userPerms \in SUBSET SeedGrants
    /\ groupPerms = {}
    /\ userGroups = {}
    /\ call = NoCall
    /\ lhs = NoPermDef
    /\ rhs = NoPermDef
    /\ model_cfg = NoCfg
    /\ domains = {}
    /\ permRoles = {}
    /\ groups = {}
    /\ group_seq = 0
    /\ parent_of = NoParents
    /\ pending = NoPending
    /\ members = {}
    /\ ops = 0

\* each behaviour of this specification evaluates one call against the store
CheckObj ==
    /\ call = NoCall
    /\ \E pd \in PermDefs, subj \in Subjects, user \in PlainUsers, context \in Contexts :
        /\ call' = [op |-> "check_obj", pd |-> pd, subj |-> subj,
                    obj_class |-> subj.obj.cls, user |-> user, context |-> context,
                    result |-> PermDef_check_obj(pd, subj, user, context)]
        /\ UNCHANGED <<userPerms, groupPerms, userGroups, lhs, rhs, model_cfg,
                       domains, permRoles, groups, group_seq,
                       parent_of, pending, members, ops>>

CheckGlobal ==
    /\ call = NoCall
    /\ \E pd \in PermDefs, cls \in ModelNames, user \in PlainUsers, context \in Contexts :
        /\ call' = [op |-> "check_global", pd |-> pd, subj |-> NoSubject,
                    obj_class |-> cls, user |-> user, context |-> context,
                    result |-> PermDef_check_global(pd, cls, user, context)]
        /\ UNCHANGED <<userPerms, groupPerms, userGroups, lhs, rhs, model_cfg,
                       domains, permRoles, groups, group_seq,
                       parent_of, pending, members, ops>>

NextPermDef == CheckObj \/ CheckGlobal

SpecPermDef == InitPermDef /\ [][NextPermDef]_vars

-----------------------------------------------------------------------------
(* Claims about PermDef evaluation, checked under SpecPermDef *)

\* the target the last call's PermDef resolves: the getter's object, else the subject
CallTarget ==
    IF call.pd.obj_getter = "none" THEN call.subj.obj ELSE call.subj.root

\* the user holds the short permission on the target: the permission of the
\* target's own class, granted on the target
HoldsOn(user, short, target) ==
    has_perm(user, get_permission_codename(target.cls, short, TRUE), target)

HoldsAllOn(user, codes, target) ==
    codes.none \/ \A i \in 1..Len(codes.list) : HoldsOn(user, codes.list[i], target)

ConditionHolds(pd, target, user, context) ==
    \/ pd.condition_checker = "none"
    \/ pd.condition_checker = "is_public" /\ Truthy(target) /\ target.is_public
    \/ pd.condition_checker = "is_authenticated" /\ user.id # 0
    \/ pd.condition_checker = "ctx_flag" /\ context.flag

\* C1: for a subject whose resolved target has a primary key, check_obj returns
\* true exactly when (a) short_perm_codes is None or the user holds every listed
\* permission on the resolved target and (b) the condition_checker is absent or
\* true on (target, user, context); otherwise it returns false.
C1_CheckObjIsPermsAndCondition ==
    (call.op = "check_obj" /\ Truthy(CallTarget) /\ CallTarget.pk # 0) =>
        call.result =
            Bool(/\ HoldsAllOn(call.user, call.pd.short_perm_codes, CallTarget)
                 /\ ConditionHolds(call.pd, CallTarget, call.user, call.context))

\* C26: when the obj_getter of a PermDef with codes resolves to a saved target
\* of another class than the subject's, check_obj computes the codenames
\* against the target's class and requires the user to hold all of them on the
\* target: with no condition_checker it passes exactly when the user does
C26_CodenamesOfTargetClass ==
    (/\ call.op = "check_obj"
     /\ call.pd.obj_getter # "none"
     /\ ~call.pd.short_perm_codes.none
     /\ call.pd.condition_checker = "none"
     /\ Truthy(CallTarget) /\ CallTarget.pk # 0
     /\ CallTarget.cls # call.subj.obj.cls) =>
        (call.result = "True" <=>
            \A i \in 1..Len(call.pd.short_perm_codes.list) :
                has_perm(call.user,
                         get_permission_codename(CallTarget.cls,
                                                 call.pd.short_perm_codes.list[i], TRUE),
                         CallTarget))

\* C2: check_obj returns false, without raising, whenever the resolved target is
\* missing or has no primary key, whatever the codes and the condition are;
\* check_global does not apply the requirement: with no object at all it
\* returns the conjunction of the class-level permission check and the condition.
C2_UnsavedTargetFails ==
    /\ (call.op = "check_obj" /\ (~Truthy(CallTarget) \/ CallTarget.pk = 0)) =>
            call.result = "False"
    /\ (call.op = "check_global" /\ call.pd.obj_getter = "none"
            /\ call.pd.condition_checker # "is_public") =>
            call.result =
                Bool(/\ \/ call.pd.short_perm_codes.none
                        \/ \A i \in 1..Len(call.pd.short_perm_codes.list) :
                              <<call.user.id,
                                Perm(call.pd.short_perm_codes.list[i], call.obj_class),
                                ObjKey(NoneObj)>> \in userPerms
                     /\ ConditionHolds(call.pd, NoneObj, call.user, call.context))

\* C2 witness: an object-level check of a PermDef with no codes and no condition
\* was denied because the target its getter resolved is unsaved, and the same
\* PermDef is not denied by that at class level
C2_Witness ==
    /\ call.op = "check_obj"
    /\ call.pd.short_perm_codes.none
    /\ call.pd.condition_checker = "none"
    /\ call.pd.obj_getter = "lambda_root"
    /\ call.subj.obj.pk # 0
    /\ Truthy(call.subj.root) /\ call.subj.root.pk = 0
    /\ call.result = "False"
    /\ PermDef_check_global(call.pd, call.subj.obj.cls, call.user, call.context)
          = "AttributeError"
    /\ PermDef_check_global(PermDef(NoCodes, "none", "none"), call.subj.obj.cls,
                            call.user, call.context) = "True"

-----------------------------------------------------------------------------
(* Specification SpecComposite: building composites with the constructor and *)
(* the | and & operators, and evaluating them                                *)

\* the plain definitions the caller combines
Leaves == { PermDef(CodeList(<<"view">>), "none", "none"),
            PermDef(NoCodes, "none", "is_public") }

RECURSIVE Size(_)
Size(pd) ==
    LET RECURSIVE Sum(_)
        Sum(l) == IF l = <<>> THEN 0 ELSE Size(Head(l)) + Sum(Tail(l))
    IN 1 + Sum(pd.perm_defs)

RECURSIVE Depth(_)
Depth(pd) ==
    LET RECURSIVE Deepest(_)
        Deepest(l) == IF l = <<>> THEN 0
                      ELSE LET d == Depth(Head(l)) m == Deepest(Tail(l))
                           IN IF d > m THEN d ELSE m
    IN IF pd.operator = "leaf" THEN 0 ELSE 1 + Deepest(pd.perm_defs)

\* the lists of plain definitions a caller passes to the constructor
ChildLists ==
    {<<>>} \cup {<<x>> : x \in Leaves} \cup {<<x, y>> : x \in Leaves, y \in Leaves}

CompositeSubjects == {s \in Subjects : s.root = NoneObj}
CompositeContext == [flag |-> TRUE]

InitComposite ==
    /\ userPerms = { <<1, Perm("view", "doc"), <<"doc", 1>> >>,
                     <<1, Perm("view", "doc"), ObjKey(NoneObj)>> }
    /\ groupPerms = {}
    /\ userGroups = {}
    /\ call = NoCall
    /\ lhs \in Leaves
    /\ rhs \in Leaves
    /\ model_cfg = NoCfg
    /\ domains = {}
    /\ permRoles = {}
    /\ groups = {}
    /\ group_seq = 0
    /\ parent_of = NoParents
    /\ pending = NoPending
    /\ members = {}
    /\ ops = 0

\* lhs = CompositePermDef(perm_defs, operator) or rhs = CompositePermDef(...)
Construct ==
    /\ call.op \notin {"check_obj", "check_global"}
    /\ \E perm_defs \in ChildLists, operator \in Operators, to_lhs \in BOOLEAN :
         LET made == CompositePermDef(perm_defs, operator) IN
         /\ made.exc = "" => Size(made.val) <= MaxNodes
         /\ call' = [op |-> "construct", operator |-> operator,
                     result |-> IF made.exc = "" THEN "None" ELSE made.exc]
         /\ lhs' = IF made.exc = "" /\ to_lhs THEN made.val ELSE lhs
         /\ rhs' = IF made.exc = "" /\ ~to_lhs THEN made.val ELSE rhs
         /\ UNCHANGED <<userPerms, groupPerms, userGroups, model_cfg,
                        domains, permRoles, groups, group_seq,
                       parent_of, pending, members, ops>>

\* lhs = lhs | rhs, with lhs a CompositePermDef
Or ==
    /\ call.op \notin {"check_obj", "check_global"}
    /\ lhs.operator \in {"and", "or"}
    /\ Size(CompositePermDef__or__(lhs, rhs)) <= MaxNodes
    /\ lhs' = CompositePermDef__or__(lhs, rhs)
    /\ call' = [op |-> "or", left |-> lhs, right |-> rhs,
                result |-> CompositePermDef__or__(lhs, rhs)]
    /\ UNCHANGED <<userPerms, groupPerms, userGroups, rhs, model_cfg,
                   domains, permRoles, groups, group_seq,
                       parent_of, pending, members, ops>>

\* lhs = lhs & rhs, with lhs a CompositePermDef
And ==
    /\ call.op \notin {"check_obj", "check_global"}
    /\ lhs.operator \in {"and", "or"}
    /\ Size(CompositePermDef__and__(lhs, rhs)) <= MaxNodes
    /\ lhs' = CompositePermDef__and__(lhs, rhs)
    /\ call' = [op |-> "and", left |-> lhs, right |-> rhs,
                result |-> CompositePermDef__and__(lhs, rhs)]
    /\ UNCHANGED <<userPerms, groupPerms, userGroups, rhs, model_cfg,
                   domains, permRoles, groups, group_seq,
                       parent_of, pending, members, ops>>

\* lhs.check_obj(obj, user, context), with lhs a CompositePermDef
EvalObj ==
    /\ call.op \notin {"check_obj", "check_global"}
    /\ lhs.operator \in {"and", "or"}
    /\ \E subj \in CompositeSubjects, user \in PlainUsers :
        /\ call' = [op |-> "check_obj", pd |-> lhs, subj |-> subj,
                    obj_class |-> subj.obj.cls, user |-> user,
                    context |-> CompositeContext,
                    result |-> CompositePermDef_check_obj(lhs, subj, user,
                                                          CompositeContext)]
        /\ UNCHANGED <<userPerms, groupPerms, userGroups, lhs, rhs, model_cfg,
                       domains, permRoles, groups, group_seq,
                       parent_of, pending, members, ops>>

\* lhs.check_global(obj_class, user, context), with lhs a CompositePermDef
EvalGlobal ==
    /\ call.op \notin {"check_obj", "check_global"}
    /\ lhs.operator \in {"and", "or"}
    /\ \E user \in PlainUsers :
        /\ call' = [op |-> "check_global", pd |-> lhs, subj |-> NoSubject,
                    obj_class |-> "doc", user |-> user,
                    context |-> CompositeContext,
                    result |-> CompositePermDef_check_global(lhs, "doc", user,
                                                             CompositeContext)]
        /\ UNCHANGED <<userPerms, groupPerms, userGroups, lhs, rhs, model_cfg,
                       domains, permRoles, groups, group_seq,
                       parent_of, pending, members, ops>>

\* each behaviour builds definitions and ends with one evaluation
NextComposite == Construct \/ Or \/ And \/ EvalObj \/ EvalGlobal

SpecComposite == InitComposite /\ [][NextComposite]_vars

-----------------------------------------------------------------------------
(* Claims about CompositePermDef, checked under SpecComposite *)

\* the outcomes b1..bn of the children of the composite the last call evaluated
ChildResults ==
    [i \in 1..Len(call.pd.perm_defs) |->
        IF call.op = "check_obj"
        THEN check_obj(call.pd.perm_defs[i], call.subj, call.user, call.context)
        ELSE check_global(call.pd.perm_defs[i], call.obj_class, call.user,
                          call.context)]

\* C3: for every list of child results b1..bn, the empty list included, an "or"
\* composite's check_obj and check_global return any(bi) and an "and"
\* composite's return all(bi); constructing a composite with any other
\* operator is rejected with an error.
C3_CompositeIsAnyAll ==
    /\ (call.op \in {"check_obj", "check_global"}
            /\ \A i \in DOMAIN ChildResults : ChildResults[i] \in {"True", "False"}) =>
          call.result =
              IF call.pd.operator = "or"
              THEN Bool(\E i \in DOMAIN ChildResults : ChildResults[i] = "True")
              ELSE Bool(\A i \in DOMAIN ChildResults : ChildResults[i] = "True")
    /\ call.op = "construct" =>
          /\ call.result = "ValueError" <=> call.operator \notin {"and", "or"}
          /\ call.result \in {"ValueError", "None"}
    /\ lhs.operator \in {"leaf", "and", "or"}
    /\ rhs.operator \in {"leaf", "and", "or"}

\* C3 witness: an "or" composite of two children was evaluated on an object,
\* its first child was false and its second true, and it returned true
C3_Witness ==
    /\ call.op = "check_obj"
    /\ call.pd.operator = "or"
    /\ ChildResults = <<"False", "True">>
    /\ call.result = "True"

\* the children of a composite that are composites with the operator op
SameOperatorChildren(pd, op) ==
    {i \in 1..Len(pd.perm_defs) : pd.perm_defs[i].operator = op}

\* C4 (as stated): whenever an operand of | (resp. &) is itself an "or" (resp.
\* "and") composite, whichever side it is on, the result's child list holds no
\* child composite with the same operator.
C4_FlattensEitherSide ==
    (call.op \in {"or", "and"}
        /\ (call.left.operator = call.op \/ call.right.operator = call.op)) =>
        SameOperatorChildren(call.result, call.op) = {}

\* C4 (amended): whenever the left operand of | (resp. &) is itself an "or"
\* (resp. "and") composite, the result's child list is that operand's children
\* followed by the right operand as one child, so a left-to-right chain over
\* plain definitions has nesting depth 1; otherwise the two operands are the
\* two children; the right operand is never flattened.
C4_FlattensLeftOperand ==
    call.op \in {"or", "and"} =>
        LET kids == call.result.perm_defs
            n == Len(call.left.perm_defs)
        IN /\ call.result.operator = call.op
           /\ call.left.operator = call.op =>
                /\ Len(kids) = n + 1
                /\ \A i \in 1..n : kids[i] = call.left.perm_defs[i]
                /\ (Depth(call.left) = 1 /\ call.right.operator = "leaf") =>
                        Depth(call.result) = 1
           /\ call.left.operator # call.op =>
                /\ Len(kids) = 2
                /\ kids[1] = call.left
           /\ kids[Len(kids)] = call.right
           /\ Depth(call.result) >= 1 + Depth(call.right)

\* C4 witness: an "or" composite of two plain definitions was combined with a
\* third plain definition by |, giving three children at depth 1
C4_Witness ==
    /\ call.op = "or"
    /\ call.left.operator = "or"
    /\ Len(call.left.perm_defs) = 2
    /\ call.right.operator = "leaf"
    /\ Len(call.result.perm_defs) = 3
    /\ Depth(call.result) = 1

-----------------------------------------------------------------------------
(* Specification SpecMixin: has_global_permission / has_object_permission of *)
(* a model class with its perm maps                                          *)

\* the values a model class gives to an action in a perm map
MapValues ==
    { ALLOW_ALL, DENY_ALL,
      PermDefList(<<PermDef(CodeList(<<"view">>), "none", "none")>>),
      PermDefList(<<IS_AUTHENTICATED, PermDef(CodeList(<<"view">>), "none", "none")>>) }

PermMaps == [Actions -> {Absent} \cup {Entry(v) : v \in MapValues}]

ModelCfgs == [global_action_perm_map : PermMaps, obj_action_perm_map : PermMaps,
              perm_def_mode : {"ANY", "ALL"}]

MixinSubjects == {s \in Subjects : s.root = NoneObj}
MixinContext == [flag |-> TRUE]

InitMixin ==
    /\ userPerms = { <<1, Perm("view", "doc"), <<"doc", 1>> >>,
                     <<1, Perm("view", "doc"), ObjKey(NoneObj)>> }
    /\ groupPerms = {}
    /\ userGroups = {}
    /\ call = NoCall
    /\ lhs = NoPermDef
    /\ rhs = NoPermDef
    /\ model_cfg \in ModelCfgs
    /\ domains = {}
    /\ permRoles = {}
    /\ groups = {}
    /\ group_seq = 0
    /\ parent_of = NoParents
    /\ pending = NoPending
    /\ members = {}
    /\ ops = 0

\* cls.has_global_permission(user, action, context)
HasGlobalPermission ==
    /\ call = NoCall
    /\ \E user \in Users, action \in Actions :
        /\ call' = [op |-> "has_global_permission", subj |-> NoSubject,
                    user |-> user, action |-> action,
                    result |-> has_global_permission(model_cfg, "doc", user, action,
                                                     MixinContext)]
        /\ UNCHANGED <<userPerms, groupPerms, userGroups, lhs, rhs, model_cfg,
                       domains, permRoles, groups, group_seq,
                       parent_of, pending, members, ops>>

\* obj.has_object_permission(user, action, context)
HasObjectPermission ==
    /\ call = NoCall
    /\ \E self \in MixinSubjects, user \in Users, action \in Actions :
        /\ call' = [op |-> "has_object_permission", subj |-> self,
                    user |-> user, action |-> action,
                    result |-> has_object_permission(model_cfg, self, user, action,
                                                     MixinContext)]
        /\ UNCHANGED <<userPerms, groupPerms, userGroups, lhs, rhs, model_cfg,
                       domains, permRoles, groups, group_seq,
                       parent_of, pending, members, ops>>

\* each behaviour of this specification makes one call on one model class
NextMixin == HasGlobalPermission \/ HasObjectPermission

SpecMixin == InitMixin /\ [][NextMixin]_vars

-----------------------------------------------------------------------------
(* Claims about PermissibleMixin, checked under SpecMixin *)

\* the perm map the last call consulted
CallMap ==
    IF call.op = "has_global_permission"
    THEN model_cfg.global_action_perm_map
    ELSE model_cfg.obj_action_perm_map

MixinCalled == call.op \in {"has_global_permission", "has_object_permission"}

\* C5: for every action and every target, whatever the model's perm maps
\* contain, has_global_permission and has_object_permission return true for a
\* user whose is_superuser flag is set.
C5_SuperuserAlwaysAllowed ==
    (MixinCalled /\ call.user.is_superuser) => call.result = "True"

\* C6: for a non-superuser, has_global_permission (resp. has_object_permission)
\* on an action with no entry in the global (resp. object) perm map raises a
\* configuration error; it neither allows nor denies the action.
C6_AbsentEntryIsConfigError ==
    (MixinCalled /\ ~call.user.is_superuser /\ ~CallMap[call.action].present) =>
        call.result \notin {"True", "False"}

\* C7: an action whose entry is DENY_ALL is denied for every non-superuser,
\* every object and every context, at global and at object level, under both
\* perm_def_mode "ANY" and "ALL".
C7_DenyAllDenies ==
    (MixinCalled /\ ~call.user.is_superuser
        /\ CallMap[call.action] = Entry(DENY_ALL)) =>
        call.result = "False"

\* C8: an action whose entry is ALLOW_ALL is allowed for every user,
\* authenticated or not, at global and at object level, for every object,
\* including a not-yet-persisted object checked for the create action.
C8_AllowAllAllows ==
    (MixinCalled /\ CallMap[call.action] = Entry(ALLOW_ALL)) =>
        call.result = "True"

\* C8 witness: the anonymous user was allowed "create" on an unsaved object by
\* an ALLOW_ALL entry of the object map, while the global map's entry is DENY_ALL
C8_Witness ==
    /\ call.op = "has_object_permission"
    /\ call.action = "create"
    /\ call.subj.obj.pk = 0
    /\ call.user.id = 0
    /\ model_cfg.obj_action_perm_map["create"] = Entry(ALLOW_ALL)
    /\ model_cfg.global_action_perm_map["create"] = Entry(DENY_ALL)
    /\ call.result = "True"

-----------------------------------------------------------------------------
(* Specification SpecDomain: saving PermDomain rows and resetting their role *)
(* groups, with grants made directly through guardian in between            *)

DomainPks == 1..MaxDomain

CurrentDb == Db(permRoles, groups, groupPerms, group_seq)

\* the grants ROLE_DEFINITIONS gives to the groups of the PermRole rows
ExpectedGrants(rows) ==
    UNION {{<<r.group_id, Perm(ROLE_DEFINITIONS[r.role][i], "team"),
              <<"team", r.domain>> >> : i \in 1..Len(ROLE_DEFINITIONS[r.role])} :
           r \in rows}

DomainCall(op, d, adding) ==
    [op |-> op, domain |-> d, adding |-> adding,
     permRoles_before |-> permRoles, groups_before |-> groups]

InitDomain ==
    /\ userPerms = {}
    /\ groupPerms = {}
    /\ userGroups = {}
    /\ call = NoCall
    /\ lhs = NoPermDef
    /\ rhs = NoPermDef
    /\ model_cfg = NoCfg
    /\ domains = {}
    /\ permRoles = {}
    /\ groups = {}
    /\ group_seq = 0
    /\ parent_of = NoParents
    /\ pending = NoPending
    /\ members = {}
    /\ ops = 0

\* domain.save(), on a new instance or on a saved one
SaveDomain ==
    \E d \in DomainPks :
        LET adding == d \notin domains
            db == PermDomain_save(CurrentDb, adding, d)
        IN /\ domains' = domains \cup {d}
           /\ permRoles' = db.permRoles
           /\ groups' = db.groups
           /\ groupPerms' = db.groupPerms
           /\ group_seq' = db.group_seq
           /\ call' = DomainCall("save", d, adding)
           /\ UNCHANGED <<userPerms, userGroups, lhs, rhs, model_cfg,
                       parent_of, pending, members, ops>>

\* domain.reset_perm_groups() on a saved instance
ResetPermGroups ==
    \E d \in domains :
        LET db == reset_perm_groups(CurrentDb, d)
        IN /\ permRoles' = db.permRoles
           /\ groups' = db.groups
           /\ groupPerms' = db.groupPerms
           /\ group_seq' = db.group_seq
           /\ call' = DomainCall("reset_perm_groups", d, FALSE)
           /\ UNCHANGED <<userPerms, userGroups, lhs, rhs, model_cfg, domains,
                       parent_of, pending, members, ops>>

\* guardian's assign_perm("delete_team", group, domain), made outside the
\* role machinery while no other such grant is outstanding
AssignPerm ==
    /\ groupPerms \subseteq ExpectedGrants(permRoles)
    /\ \E g \in groups, d \in domains :
        /\ groupPerms' = assign_perms(groupPerms,
                                      {get_permission_codename("team", "delete", FALSE)},
                                      g, DomainObj(d))
        /\ call' = DomainCall("assign_perm", d, FALSE)
        /\ UNCHANGED <<userPerms, userGroups, lhs, rhs, model_cfg, domains,
                       permRoles, groups, group_seq,
                       parent_of, pending, members, ops>>

NextDomain == SaveDomain \/ ResetPermGroups \/ AssignPerm

SpecDomain == InitDomain /\ [][NextDomain]_vars

-----------------------------------------------------------------------------
(* Claims about PermDomain / PermRole, checked under SpecDomain *)

Roles == {role_choices[i] : i \in 1..Len(role_choices)}

RolesOf(d) == {r \in permRoles : r.domain = d}

\* C9: the first save of a PermDomain creates exactly one PermRole, with its
\* Group, per role of ROLE_DEFINITIONS, and every later save or
\* reset_perm_groups() leaves the sets of PermRole rows and of Groups as they
\* were, so after any sequence of saves and resets every domain has exactly one
\* PermRole per role.
C9_OnePermRolePerRole ==
    /\ \A d \in domains, role \in Roles :
          Cardinality({r \in RolesOf(d) : r.role = role}) = 1
    /\ \A r \in permRoles : r.domain \in domains /\ r.role \in Roles
    /\ groups = {r.group_id : r \in permRoles}
    /\ Cardinality(groups) = Cardinality(permRoles)
    /\ (call.op = "save" /\ call.adding) =>
          /\ permRoles \ call.permRoles_before = RolesOf(call.domain)
          /\ call.permRoles_before \subseteq permRoles
          /\ call.groups_before \subseteq groups
          /\ Cardinality(groups \ call.groups_before) = Cardinality(Roles)
    /\ (call.op = "reset_perm_groups" \/ (call.op = "save" /\ ~call.adding)) =>
          /\ permRoles = call.permRoles_before
          /\ groups = call.groups_before

\* C9 witness: reset_perm_groups() ran on a saved domain, next to another saved
\* domain, and the rows and groups are those of before
C9_Witness ==
    /\ call.op = "reset_perm_groups"
    /\ domains = DomainPks
    /\ Cardinality(permRoles) = MaxDomain * Cardinality(Roles)
    /\ permRoles = call.permRoles_before
    /\ groups = call.groups_before

\* the short codes of the permissions on the Team class a group holds on a domain
HeldOn(group, d) ==
    {x[2].short : x \in {y \in groupPerms :
                            /\ y[1] = group
                            /\ y[3] = <<"team", d>>
                            /\ y[2].model = "team"}}

\* C10: right after the first save of a domain, for every role r of
\* ROLE_DEFINITIONS the Group of r's PermRole holds on the domain object
\* exactly the permissions derived from ROLE_DEFINITIONS[r], no more and no
\* fewer; the Group of a role with an empty code list holds none.
C10_FreshDomainGrants ==
    (call.op = "save" /\ call.adding) =>
        \A r \in RolesOf(call.domain) :
            /\ HeldOn(r.group_id, call.domain) =
                   {ROLE_DEFINITIONS[r.role][i] :
                        i \in 1..Len(ROLE_DEFINITIONS[r.role])}
            /\ \A x \in groupPerms :
                   (x[1] = r.group_id /\ x[3] = <<"team", call.domain>>) =>
                        x[2].model = "team"

\* C10 witness: a domain was saved for the first time; its owner group holds
\* delete on it, its viewer group holds view alone and its member group nothing
C10_Witness ==
    /\ call.op = "save" /\ call.adding
    /\ \E own \in RolesOf(call.domain), view \in RolesOf(call.domain),
          mem \in RolesOf(call.domain) :
          /\ own.role = "own" /\ view.role = "view" /\ mem.role = "mem"
          /\ "delete" \in HeldOn(own.group_id, call.domain)
          /\ HeldOn(view.group_id, call.domain) = {"view"}
          /\ HeldOn(mem.group_id, call.domain) = {}

-----------------------------------------------------------------------------
(* Specification SpecHierarchy: creating and re-parenting the nodes of a     *)
(* HierarchicalPermRoot tree, and resetting the permissions of role groups   *)

NodePks == 1..MaxNode

\* the record of a call on node n, or on the PermRootGroup row of a node
HierarchyCall(op, n, row) ==
    [op |-> op, node |-> n, row |-> row, adding |-> n \notin domains,
     old_parent |-> IF n \in domains THEN parent_of[n] ELSE 0]

InitHierarchy ==
    /\ userPerms = {}
    /\ groupPerms = {}
    /\ userGroups = {}
    /\ call = NoCall
    /\ lhs = NoPermDef
    /\ rhs = NoPermDef
    /\ model_cfg = NoCfg
    /\ domains = {}
    /\ permRoles = {}
    /\ groups = {}
    /\ group_seq = 0
    /\ parent_of = [n \in NodePks |-> 0]
    /\ pending = NoPending
    /\ members = {}
    /\ ops = 0

\* node.save() with node.parent set to a saved node or to None, on a saved
\* node or on a new one, which gets the next primary key; the parent is not
\* the node or one of its descendants
SaveNode ==
    /\ ops < MaxOps
    /\ call.op # "reset_permissions_for_group"
    /\ \E n \in NodePks, parent_id \in domains \cup {0} :
        /\ n \in domains \/ n = Cardinality(domains) + 1
        /\ n \notin get_ancestor_ids_from_id(parent_of, domains, parent_id)
        /\ ops' = ops + 1
        /\ LET saved == HierarchicalPermRoot_save(CurrentDb, parent_of, domains, n,
                                                  parent_id)
           IN /\ domains' = saved.nodes
              /\ parent_of' = saved.parents
              /\ permRoles' = saved.db.permRoles
              /\ groups' = saved.db.groups
              /\ groupPerms' = saved.db.groupPerms
              /\ group_seq' = saved.db.group_seq
              /\ call' = HierarchyCall("save", n, NoRow) @@
                         [parent |-> parent_id, exc |-> saved.exc,
                          resets |-> saved.resets]
              /\ UNCHANGED <<userPerms, userGroups, lhs, rhs, model_cfg, pending,
                             members>>

\* root_group_obj.reset_permissions_for_group() on a saved PermRootGroup row;
\* a behaviour ends with the calls made on one row
ResetPermissionsForGroup ==
    /\ ops < MaxOps
    /\ ops' = ops + 1
    /\ \E row \in permRoles :
        /\ call.op = "reset_permissions_for_group" => call.row = row
        /\ groupPerms' = PermRootGroup_reset_permissions_for_group(
                             groupPerms, parent_of, domains, row)
        /\ call' = HierarchyCall("reset_permissions_for_group", row.domain, row)
        /\ UNCHANGED <<userPerms, userGroups, lhs, rhs, model_cfg, domains,
                       permRoles, groups, group_seq, parent_of, pending, members>>

NextHierarchy == SaveNode \/ ResetPermissionsForGroup

SpecHierarchy == InitHierarchy /\ [][NextHierarchy]_vars

-----------------------------------------------------------------------------
(* Claims about groups' grants over a hierarchy, checked under SpecHierarchy *)

\* C11: calling reset_permissions_for_group() twice in a row with no
\* intervening state change performs zero net grant and revoke operations on
\* the second call: the Group's grants on every target after the second call
\* equal those after the first.
C11_SecondResetIsNoOp ==
    [][(call.op = "reset_permissions_for_group"
            /\ call'.op = "reset_permissions_for_group"
            /\ call'.row = call.row) =>
         groupPerms' = groupPerms]_vars

\* the k-th ancestor of node m in a hierarchy (0 when there is none)
RECURSIVE NthParentIn(_, _, _, _)
NthParentIn(parents, nodes, m, k) ==
    IF k = 0 THEN m
    ELSE LET up == NthParentIn(parents, nodes, m, k - 1)
         IN IF up \in nodes THEN parents[up] ELSE 0

NthParent(m, k) == NthParentIn(parent_of, domains, m, k)

\* the saved nodes of the subtree rooted at n, n included
Subtree(n) == {m \in domains : \E k \in 0..MaxNode : NthParent(m, k) = n}

\* C13: get_permission_targets() of a hierarchical node N yields N and every
\* descendant of N (children, their children, and so on), each exactly once;
\* of a non-hierarchical PermRoot it yields the domain itself and nothing else.
C13_TargetsAreSubtree ==
    /\ \A n \in domains :
          LET targets == HierarchicalPermRoot_get_permission_targets(parent_of,
                                                                    domains, n)
          IN /\ {targets[i] : i \in 1..Len(targets)} = {DomainObj(m) : m \in Subtree(n)}
             /\ Len(targets) = Cardinality(Subtree(n))
             /\ targets[1] = DomainObj(n)
    /\ \A d \in NodePks : get_permission_targets(d) = <<DomainObj(d)>>

\* C13 witness: node 1 has a child with a child of its own, and its targets are
\* the three nodes
C13_Witness ==
    /\ domains = {1, 2, 3}
    /\ parent_of[2] = 1
    /\ parent_of[3] = 2
    /\ call.op = "save"
    /\ Len(HierarchicalPermRoot_get_permission_targets(parent_of, domains, 1)) = 3

\* the chain of ancestors that starts at the parent p, p included
Chain(parents, nodes, p) ==
    {NthParentIn(parents, nodes, p, k) : k \in 0..MaxNode} \ {0}

\* the hierarchy as it was before the last save
ParentsBefore == [parent_of EXCEPT ![call.node] = call.old_parent]
NodesBefore == IF call.adding THEN domains \ {call.node} ELSE domains

C15_SameParentRaises ==
    (call.op = "save" /\ ~call.adding /\ call.old_parent = call.parent) =>
        call.exc = "AssertionError"

\* C15 (amended): saving an existing node with its parent re-assigned to the
\* same parent succeeds silently: the stored and the new parent id are equal,
\* so the ancestor sets are not compared, no assertion is raised and
\* reset_perm_groups() is called on no node; every save that raises nothing
\* and changes the parent resets at least one node.
C15_SameParentSucceedsSilently ==
    /\ (call.op = "save" /\ ~call.adding /\ call.old_parent = call.parent) =>
          /\ call.exc = ""
          /\ call.resets = <<>>
    /\ (call.op = "save" /\ call.exc = "" /\ call.old_parent # call.parent) =>
          call.resets # <<>>

\* C15 witness: node 2, saved under node 1, was saved again with node 1 as
\* its parent; nothing was raised and nothing was reset
C15_Witness ==
    /\ call.op = "save"
    /\ ~call.adding
    /\ call.node = 2
    /\ call.old_parent = 1
    /\ call.parent = 1
    /\ call.exc = ""
    /\ call.resets = <<>>

GrantsOn(group, m) == {x \in groupPerms : x[1] = group /\ x[3] = <<"team", m>>}

C17_AncestorsHoldOnSubtree ==
    call.op \in {"none", "save"} =>
        \A a \in domains : \A b \in Subtree(a) : \A r \in RolesOf(a) :
            \A i \in 1..Len(ROLE_DEFINITIONS[r.role]) :
                <<r.group_id, Perm(ROLE_DEFINITIONS[r.role][i], "team"), <<"team", b>> >>
                    \in groupPerms

\* C27: reset_permissions_for_group(), from whatever the Group held before,
\* ends with the Group of the role holding on every target of
\* get_permission_targets() exactly the permissions of ROLE_DEFINITIONS[role]:
\* the missing ones added, the extraneous ones removed, the correct ones kept
C27_ResetLeavesExactlyRoleGrants ==
    call.op = "reset_permissions_for_group" =>
        LET targets == HierarchicalPermRoot_get_permission_targets(
                           parent_of, domains, call.row.domain)
        IN \A i \in 1..Len(targets) :
              GrantsOn(call.row.group_id, targets[i].pk) =
                  {<<call.row.group_id, Perm(ROLE_DEFINITIONS[call.row.role][j], "team"),
                     <<"team", targets[i].pk>> >> :
                        j \in 1..Len(ROLE_DEFINITIONS[call.row.role])}

-----------------------------------------------------------------------------
(* Specification SpecReset: PermDomain.reset_perm_groups() running one       *)
(* database write at a time, as a reader of the permission store sees it     *)

\* the position of a running reset_perm_groups(): the roles the loop has
\* still to visit, the first being the current one, and the statement it is at
Running(d, roles, at, row) == [domain |-> d, roles |-> roles, at |-> at, row |-> row]

\* the loop moves on to the next role, or the call returns
NextRole(d, roles) ==
    IF Tail(roles) = <<>> THEN NoPending
    ELSE Running(d, Tail(roles), "get_or_create", NoRow)

\* domain.save() while no reset is running
SaveDomainAlone ==
    /\ pending = NoPending
    /\ SaveDomain

\* guardian's assign_perm made while no reset is running
AssignPermAlone ==
    /\ pending = NoPending
    /\ AssignPerm

\* domain.reset_perm_groups() is called on a saved domain
ResetStart ==
    /\ pending = NoPending
    /\ \E d \in domains :
        /\ pending' = Running(d, role_choices, "get_or_create", NoRow)
        /\ call' = DomainCall("reset_perm_groups", d, FALSE) @@
                   [groupPerms_before |-> groupPerms]
        /\ UNCHANGED <<userPerms, groupPerms, userGroups, lhs, rhs, model_cfg,
                       domains, permRoles, groups, group_seq, parent_of, members,
                       ops>>

\* root_group_model_class.objects.get_or_create(role=role, <domain>=self)
ResetGetOrCreate ==
    /\ pending # NoPending
    /\ pending.at = "get_or_create"
    /\ LET got == get_or_create(CurrentDb, Head(pending.roles), pending.domain)
       IN /\ permRoles' = got.db.permRoles
          /\ groups' = got.db.groups
          /\ groupPerms' = got.db.groupPerms
          /\ group_seq' = got.db.group_seq
          /\ pending' = IF got.exc # "" THEN NoPending
                        ELSE IF got.created
                        THEN NextRole(pending.domain, pending.roles)
                        ELSE Running(pending.domain, pending.roles, "clear", got.obj)
    /\ UNCHANGED <<userPerms, userGroups, call, lhs, rhs, model_cfg, domains,
                   parent_of, members, ops>>

\* reset_permissions_for_group(clear_existing=True): clear_permissions_for_class
ResetClearExisting ==
    /\ pending # NoPending
    /\ pending.at = "clear"
    /\ groupPerms' = clear_permissions_for_class(groupPerms, pending.row.group_id,
                                                 DomainObj(pending.domain).cls)
    /\ pending' = Running(pending.domain, pending.roles, "update", pending.row)
    /\ UNCHANGED <<userPerms, userGroups, call, lhs, rhs, model_cfg, domains,
                   permRoles, groups, group_seq, parent_of, members, ops>>

\* reset_permissions_for_group(clear_existing=True): the loop over the targets
ResetUpdateTargets ==
    /\ pending # NoPending
    /\ pending.at = "update"
    /\ groupPerms' = reset_permissions_for_group(groupPerms, pending.row, FALSE)
    /\ pending' = NextRole(pending.domain, pending.roles)
    /\ UNCHANGED <<userPerms, userGroups, call, lhs, rhs, model_cfg, domains,
                   permRoles, groups, group_seq, parent_of, members, ops>>

NextReset ==
    \/ SaveDomainAlone
    \/ AssignPermAlone
    \/ ResetStart
    \/ ResetGetOrCreate
    \/ ResetClearExisting
    \/ ResetUpdateTargets

SpecReset == InitDomain /\ [][NextReset]_vars

-----------------------------------------------------------------------------
(* Claims about a running reset, checked under SpecReset *)

\* C12: reconciliation is delta-based, never clear-then-reassign: while
\* reset_perm_groups() runs on an initialized domain there is no intermediate
\* state in which a role's Group lacks a permission on a target that it held
\* before the call and that ROLE_DEFINITIONS still requires.
C12_NoAbsentWindow ==
    pending # NoPending =>
        \A x \in call.groupPerms_before \cap ExpectedGrants(RolesOf(pending.domain)) :
            x \in groupPerms

-----------------------------------------------------------------------------
(* Specification SpecMembers: users join and leave the role Groups of saved  *)
(* domains, through user.groups and through group.user_set                   *)

UserIds == 1..MaxUser

\* the roles whose Groups the membership changes are made on
MemberRoles == {"view", "con"}

MemberGroups == {r.group_id : r \in {q \in permRoles : q.role \in MemberRoles}}

MemberCall(op, user, group) == [op |-> op, user |-> user, group |-> group]

\* domain.save() of a new domain, which gets the next primary key, before any
\* other call
SaveNewDomain ==
    /\ ops = 0
    /\ Cardinality(domains) + 1 \in DomainPks
    /\ LET d == Cardinality(domains) + 1
           db == PermDomain_save(CurrentDb, TRUE, d)
       IN /\ domains' = domains \cup {d}
          /\ permRoles' = db.permRoles
          /\ groups' = db.groups
          /\ groupPerms' = db.groupPerms
          /\ group_seq' = db.group_seq
          /\ call' = [op |-> "save", row |-> NoRow]
    /\ UNCHANGED <<userPerms, userGroups, lhs, rhs, model_cfg, parent_of, pending,
                   members, ops>>

\* user.groups.add(group): m2m_changed is sent with instance=user, model=Group
\* and the primary keys that were not in the relation yet
UserGroupsAdd ==
    /\ ops < MaxOps
    /\ ops' = ops + 1
    /\ \E user \in UserIds, group \in MemberGroups :
        LET pk_set == {g \in {group} : <<user, g>> \notin userGroups}
            ug == userGroups \cup {<<user, group>>}
        IN /\ userGroups' = ug
           /\ members' = post_group_membership_changed(
                             members, ug, permRoles, "post_add", user, "Group", pk_set)
           /\ call' = MemberCall("user.groups.add", user, group)
    /\ UNCHANGED <<userPerms, groupPerms, lhs, rhs, model_cfg, domains, permRoles,
                   groups, group_seq, parent_of, pending>>

\* user.groups.remove(group)
UserGroupsRemove ==
    /\ ops < MaxOps
    /\ ops' = ops + 1
    /\ \E user \in UserIds, group \in MemberGroups :
        LET ug == userGroups \ {<<user, group>>}
        IN /\ userGroups' = ug
           /\ members' = post_group_membership_changed(
                             members, ug, permRoles, "post_remove", user, "Group",
                             {group})
           /\ call' = MemberCall("user.groups.remove", user, group)
    /\ UNCHANGED <<userPerms, groupPerms, lhs, rhs, model_cfg, domains, permRoles,
                   groups, group_seq, parent_of, pending>>

\* user.groups.clear(): pk_set is None
UserGroupsClear ==
    /\ ops < MaxOps
    /\ ops' = ops + 1
    /\ \E user \in UserIds :
        LET ug == {x \in userGroups : x[1] # user}
        IN /\ userGroups' = ug
           /\ members' = post_group_membership_changed(
                             members, ug, permRoles, "post_clear", user, "Group", {})
           /\ call' = MemberCall("user.groups.clear", user, 0)
    /\ UNCHANGED <<userPerms, groupPerms, lhs, rhs, model_cfg, domains, permRoles,
                   groups, group_seq, parent_of, pending>>

\* group.user_set.add(user): m2m_changed is sent with instance=group,
\* model=User and the users' primary keys
GroupUserSetAdd ==
    /\ ops < MaxOps
    /\ ops' = ops + 1
    /\ \E user \in UserIds, group \in MemberGroups :
        LET pk_set == {u \in {user} : <<u, group>> \notin userGroups}
            ug == userGroups \cup {<<user, group>>}
        IN /\ userGroups' = ug
           /\ members' = post_group_membership_changed(
                             members, ug, permRoles, "post_add", group, "User", pk_set)
           /\ call' = MemberCall("group.user_set.add", user, group)
    /\ UNCHANGED <<userPerms, groupPerms, lhs, rhs, model_cfg, domains, permRoles,
                   groups, group_seq, parent_of, pending>>

\* group.user_set.remove(user)
GroupUserSetRemove ==
    /\ ops < MaxOps
    /\ ops' = ops + 1
    /\ \E user \in UserIds, group \in MemberGroups :
        LET ug == userGroups \ {<<user, group>>}
        IN /\ userGroups' = ug
           /\ members' = post_group_membership_changed(
                             members, ug, permRoles, "post_remove", group, "User",
                             {user})
           /\ call' = MemberCall("group.user_set.remove", user, group)
    /\ UNCHANGED <<userPerms, groupPerms, lhs, rhs, model_cfg, domains, permRoles,
                   groups, group_seq, parent_of, pending>>

\* group.user_set.clear()
GroupUserSetClear ==
    /\ ops < MaxOps
    /\ ops' = ops + 1
    /\ \E group \in MemberGroups :
        LET ug == {x \in userGroups : x[2] # group}
        IN /\ userGroups' = ug
           /\ members' = post_group_membership_changed(
                             members, ug, permRoles, "post_clear", group, "User", {})
           /\ call' = MemberCall("group.user_set.clear", 0, group)
    /\ UNCHANGED <<userPerms, groupPerms, lhs, rhs, model_cfg, domains, permRoles,
                   groups, group_seq, parent_of, pending>>

NextMembers ==
    \/ SaveNewDomain
    \/ UserGroupsAdd
    \/ UserGroupsRemove
    \/ UserGroupsClear
    \/ GroupUserSetAdd
    \/ GroupUserSetRemove
    \/ GroupUserSetClear

SpecMembers == InitDomain /\ [][NextMembers]_vars

-----------------------------------------------------------------------------
(* Claims about PermDomainMember rows, checked under SpecMembers *)

\* the user belongs to at least one Group owned by a PermRole of the domain
BelongsTo(user, d) == \E r \in RolesOf(d) : <<user, r.group_id>> \in userGroups

\* C18: after any sequence of group-membership changes (a user added to,
\* removed from, or cleared of Groups, from either side of the user-group
\* relation), a PermDomainMember row exists for (user, domain) if and only if
\* the user belongs to at least one Group owned by a PermRole of that domain.
C18_MemberRowTracksMembership ==
    \A user \in UserIds, d \in domains :
        <<user, d>> \in members <=> BelongsTo(user, d)

-----------------------------------------------------------------------------
(* Specification SpecRoles: PermRole rows are deleted, and created again by  *)
(* reset_perm_groups()                                                       *)

\* the roles whose PermRole rows are deleted
DeletedRoles == {"mem", "own"}

\* role.delete() on a saved PermRole row
DeletePermRole ==
    /\ ops < MaxOps
    /\ ops' = ops + 1
    /\ \E row \in {r \in permRoles : r.role \in DeletedRoles},
          receiver_alive \in BOOLEAN :
        LET deleted == PermRole_delete(CurrentDb, userGroups, row, receiver_alive)
        IN /\ permRoles' = deleted.db.permRoles
           /\ groups' = deleted.db.groups
           /\ groupPerms' = deleted.db.groupPerms
           /\ group_seq' = deleted.db.group_seq
           /\ userGroups' = deleted.userGroups
           /\ call' = [op |-> "delete", row |-> row]
    /\ UNCHANGED <<userPerms, lhs, rhs, model_cfg, domains, parent_of, pending,
                   members>>

\* domain.reset_perm_groups() after a deletion
ResetAfterDelete ==
    /\ call.op = "delete"
    /\ ops < MaxOps
    /\ ops' = ops + 1
    /\ LET db == reset_perm_groups(CurrentDb, call.row.domain)
       IN /\ permRoles' = db.permRoles
          /\ groups' = db.groups
          /\ groupPerms' = db.groupPerms
          /\ group_seq' = db.group_seq
          /\ call' = [op |-> "reset_perm_groups", row |-> call.row]
    /\ UNCHANGED <<userPerms, userGroups, lhs, rhs, model_cfg, domains, parent_of,
                   pending, members>>

NextRoles == SaveNewDomain \/ DeletePermRole \/ ResetAfterDelete

SpecRoles == InitDomain /\ [][NextRoles]_vars

-----------------------------------------------------------------------------
(* Claims about PermRole rows and their Groups, checked under SpecRoles *)

\* C19: at every reachable state each persisted PermRole owns exactly one
\* existing Group, whose primary key is the PermRole's primary key and which no
\* other PermRole owns, and once a PermRole row is deleted its owned Group no
\* longer exists.
C19_RoleOwnsItsGroup ==
    /\ \A r \in permRoles : r.group_id # 0 /\ r.group_id \in groups
    /\ \A r1 \in permRoles, r2 \in permRoles : r1.group_id = r2.group_id => r1 = r2
    /\ call.op = "delete" =>
          /\ call.row \notin permRoles
          /\ call.row.group_id \notin groups

-----------------------------------------------------------------------------
(* Specification SpecContent: has_object_permission on content objects whose *)
(* object policy asks for permissions on the domain that owns them           *)

\* the content object with primary key 1 that belongs to the domain d
Content(d) == [obj |-> [cls |-> "doc", pk |-> 1, is_public |-> FALSE],
               root |-> DomainObj(d)]

\* the permission code the content's object policy requires on its domain
RequiredCode == [create |-> "add_on", retrieve |-> "view"]

\* the content class: no global policy, and an object policy of definitions
\* that resolve the owning domain
ContentCfg ==
    [global_action_perm_map |-> EmptyMap,
     obj_action_perm_map |->
        [a \in Actions |->
            Entry(PermDefList(<<PermDef(CodeList(<<RequiredCode[a]>>),
                                        "lambda_root", "none")>>))],
     perm_def_mode |-> "ANY"]

\* content.has_object_permission(user, action); the behaviour ends with it
ContentHasObjectPermission ==
    /\ call.op # "has_object_permission"
    /\ \E d \in domains, user \in Users, action \in Actions :
        /\ call' = [op |-> "has_object_permission", domain |-> d, user |-> user,
                    action |-> action,
                    result |-> has_object_permission(ContentCfg, Content(d), user,
                                                     action, MixinContext)]
        /\ UNCHANGED <<userPerms, groupPerms, userGroups, lhs, rhs, model_cfg,
                       domains, permRoles, groups, group_seq, parent_of, pending,
                       members, ops>>

\* domain.add_user_to_groups(user, roles=[role]) before the check
AddUserToGroups ==
    /\ call.op # "has_object_permission"
    /\ UserGroupsAdd

NextContent == SaveNewDomain \/ AddUserToGroups \/ ContentHasObjectPermission

SpecContent == InitDomain /\ [][NextContent]_vars

-----------------------------------------------------------------------------
(* Claims about domain-owned content, checked under SpecContent *)

\* the user belongs to a role Group of the domain whose ROLE_DEFINITIONS entry
\* contains the code
HasRoleWithCode(user, d, code) ==
    \E r \in RolesOf(d) :
        /\ <<user.id, r.group_id>> \in userGroups
        /\ \E i \in 1..Len(ROLE_DEFINITIONS[r.role]) : ROLE_DEFINITIONS[r.role][i] = code

\* C20: for a content object whose object policy requires a permission code on
\* its domain, a non-superuser passes has_object_permission for an action if and
\* only if they belong to a role Group of the content's own domain whose
\* ROLE_DEFINITIONS entry contains the required code; a user with roles only on
\* another domain, or on none, is denied.
C20_ContentFollowsDomainRoles ==
    (call.op = "has_object_permission" /\ ~call.user.is_superuser) =>
        (call.result = "True" <=>
            HasRoleWithCode(call.user, call.domain, RequiredCode[call.action]))

-----------------------------------------------------------------------------
(* Specification SpecPerms: PermissiblePerms.has_object_permission on a view *)
(* of a model class with its perm maps                                       *)

\* permission.has_object_permission(request, view, obj); an object without a
\* pk is always unsaved, one with a pk may be a retrieved row or an instance
\* built from the request that has not been saved
PermsHasObjectPermission ==
    /\ call = NoCall
    /\ \E obj \in MixinSubjects, adding \in BOOLEAN, user \in Users, action \in Actions :
        /\ obj.obj.pk = 0 => adding
        /\ call' = [op |-> "PermissiblePerms.has_object_permission", subj |-> obj,
                    adding |-> adding, user |-> user, action |-> action,
                    result |-> PermissiblePerms_has_object_permission(
                                   model_cfg, obj, adding, user, action, MixinContext)]
        /\ UNCHANGED <<userPerms, groupPerms, userGroups, lhs, rhs, model_cfg,
                       domains, permRoles, groups, group_seq,
                       parent_of, pending, members, ops>>

NextPerms == PermsHasObjectPermission

SpecPerms == InitMixin /\ [][NextPerms]_vars

\* the model's object check of the call fails for the action of the view
ObjectCheckFails ==
    /\ call.op = "PermissiblePerms.has_object_permission"
    /\ has_object_permission(model_cfg, call.subj, call.user, call.action,
                             MixinContext) = "False"

\* the user of the call passes the model's check for the retrieve action
PassesRetrieve ==
    has_object_permission(model_cfg, call.subj, call.user, "retrieve",
                          MixinContext) = "True"

\* C21: when the model's object check fails, an unauthenticated user and any
\* user of a not yet persisted object get the explicit denial; an
\* authenticated user of an existing object gets Not Found when the action is
\* retrieve or the retrieve check fails too, and the explicit denial exactly
\* when the retrieve check passes
C21_DenyOrNotFound ==
    ObjectCheckFails =>
        /\ call.user.id = 0 => call.result = "False"
        /\ call.adding => call.result = "False"
        /\ (call.user.id # 0 /\ ~call.adding) =>
              /\ (call.action = "retrieve" \/ ~PassesRetrieve) => call.result = "Http404"
              /\ (call.action # "retrieve" /\ PassesRetrieve) => call.result = "False"

\* an authenticated user of an existing object fails the action of the view,
\* passes the retrieve check and is denied explicitly
C21_Witness ==
    /\ ObjectCheckFails
    /\ call.user.id # 0
    /\ ~call.adding
    /\ call.action # "retrieve"
    /\ PassesRetrieve
    /\ call.result = "False"

-----------------------------------------------------------------------------
(* Specification SpecOwned: has_object_permission on domain-owned objects,   *)
(* whose domain foreign key may be null                                      *)

\* owned.has_object_permission(user, action) on an object whose domain key is
\* a saved domain or null (0); the behaviour ends with it
OwnedHasObjectPermission ==
    /\ call.op # "has_object_permission"
    /\ \E domain_id \in domains \cup {0}, user \in Users, action \in Actions :
        /\ call' = [op |-> "has_object_permission", domain |-> domain_id,
                    user |-> user, action |-> action,
                    result |-> DomainOwned_has_object_permission(
                                   DefaultDomainOwnedCfg, domain_id, user, action,
                                   MixinContext)]
        /\ UNCHANGED <<userPerms, groupPerms, userGroups, lhs, rhs, model_cfg,
                       domains, permRoles, groups, group_seq, parent_of, pending,
                       members, ops>>

NextOwned == SaveNewDomain \/ AddUserToGroups \/ OwnedHasObjectPermission

SpecOwned == InitDomain /\ [][NextOwned]_vars

\* C22: when the domain attribute path of an object yields no target (a null
\* foreign key) and the policy of the action requires permission codes, the
\* check of a non-superuser returns false and raises nothing
C22_NoTargetDenies ==
    (call.op = "has_object_permission" /\ call.domain = 0
        /\ ~call.user.is_superuser) => call.result = "False"

-----------------------------------------------------------------------------
(* Specification SpecPure: checks called one after another on a permission   *)
(* store that direct grants change in between                                *)

\* the policies, subjects and model classes the calls are made with
PurePermDefs ==
    { PermDef(CodeList(<<"view">>), "none", "none"),
      PermDef(CodeList(<<"view">>), "lambda_root", "ctx_flag"),
      PermDef(NoCodes, "none", "is_authenticated") }

PureSubjects ==
    { [obj |-> [cls |-> "doc", pk |-> 1, is_public |-> FALSE],
       root |-> [cls |-> "team", pk |-> 1, is_public |-> FALSE]],
      [obj |-> [cls |-> "doc", pk |-> 0, is_public |-> FALSE], root |-> NoneObj] }

PureCfgs ==
    { [global_action_perm_map |->
          [create |-> Entry(PermDefList(<<IS_AUTHENTICATED>>)), retrieve |-> Absent],
       obj_action_perm_map |->
          [create |-> Entry(DENY_ALL),
           retrieve |-> Entry(PermDefList(<<IS_AUTHENTICATED,
                              PermDef(CodeList(<<"view">>), "none", "none")>>))],
       perm_def_mode |-> m] : m \in {"ANY", "ALL"} }

PureGrants ==
    { <<1, Perm("view", "doc"), <<"doc", 1>> >>,
      <<1, Perm("view", "team"), <<"team", 1>> >> }

CheckOps == {"check_obj", "check_global", "has_object_permission",
             "has_global_permission"}

\* what a call is made with
PureInputs(op, pd, subj, user, action, context) ==
    [op |-> op, pd |-> pd, subj |-> subj, user |-> user, action |-> action,
     context |-> context]

InputsOf(c) ==
    PureInputs(c.op, c.pd, c.subj, c.user, c.action, c.context)

\* the record of a call: its inputs, its result, and whether the call before
\* it was the same call
PureCall(in, result) ==
    [op |-> in.op, pd |-> in.pd, subj |-> in.subj, user |-> in.user,
     action |-> in.action, context |-> in.context, result |-> result,
     repeat |-> (call.op \in CheckOps /\ InputsOf(call) = in)]

InitPure ==
    /\ userPerms \in SUBSET PureGrants
    /\ groupPerms = {}
    /\ userGroups = {}
    /\ call = NoCall
    /\ lhs = NoPermDef
    /\ rhs = NoPermDef
    /\ model_cfg \in PureCfgs
    /\ domains = {}
    /\ permRoles = {}
    /\ groups = {}
    /\ group_seq = 0
    /\ parent_of = NoParents
    /\ pending = NoPending
    /\ members = {}
    /\ ops = 0

\* a check that also grants the user what it looked for
PureCheckObj_Granting ==
    /\ ops < MaxOps
    /\ \E pd \in PurePermDefs, subj \in PureSubjects, user \in PlainUsers, context \in Contexts :
        /\ call' = PureCall(PureInputs("check_obj", pd, subj, user, "", context),
                            PermDef_check_obj(pd, subj, user, context))
        /\ userPerms' = userPerms \cup {<<user.id, Perm("view", subj.obj.cls),
                                          ObjKey(subj.obj)>>}
        /\ ops' = ops + 1
        /\ UNCHANGED <<groupPerms, userGroups, lhs, rhs, model_cfg,
                       domains, permRoles, groups, group_seq,
                       parent_of, pending, members>>

\* perm_def.check_obj(obj, user, context)
PureCheckObj ==
    /\ ops < MaxOps
    /\ \E pd \in PurePermDefs, subj \in PureSubjects, user \in PlainUsers, context \in Contexts :
        /\ call' = PureCall(PureInputs("check_obj", pd, subj, user, "", context),
                            PermDef_check_obj(pd, subj, user, context))
        /\ ops' = ops + 1
        /\ UNCHANGED <<userPerms, groupPerms, userGroups, lhs, rhs, model_cfg,
                       domains, permRoles, groups, group_seq,
                       parent_of, pending, members>>

\* perm_def.check_global(obj_class, user, context)
PureCheckGlobal ==
    /\ ops < MaxOps
    /\ \E pd \in PurePermDefs, user \in PlainUsers, context \in Contexts :
        /\ call' = PureCall(PureInputs("check_global", pd, NoSubject, user, "", context),
                            PermDef_check_global(pd, "doc", user, context))
        /\ ops' = ops + 1
        /\ UNCHANGED <<userPerms, groupPerms, userGroups, lhs, rhs, model_cfg,
                       domains, permRoles, groups, group_seq,
                       parent_of, pending, members>>

\* obj.has_object_permission(user, action, context)
PureHasObjectPermission ==
    /\ ops < MaxOps
    /\ \E subj \in PureSubjects, user \in Users, action \in Actions :
        /\ call' = PureCall(PureInputs("has_object_permission", NoPermDef,
                                       [subj EXCEPT !.root = NoneObj], user, action,
                                       MixinContext),
                            has_object_permission(model_cfg,
                                                  [subj EXCEPT !.root = NoneObj],
                                                  user, action, MixinContext))
        /\ ops' = ops + 1
        /\ UNCHANGED <<userPerms, groupPerms, userGroups, lhs, rhs, model_cfg,
                       domains, permRoles, groups, group_seq,
                       parent_of, pending, members>>

\* cls.has_global_permission(user, action, context)
PureHasGlobalPermission ==
    /\ ops < MaxOps
    /\ \E user \in Users, action \in Actions :
        /\ call' = PureCall(PureInputs("has_global_permission", NoPermDef, NoSubject,
                                       user, action, MixinContext),
                            has_global_permission(model_cfg, "doc", user, action,
                                                  MixinContext))
        /\ ops' = ops + 1
        /\ UNCHANGED <<userPerms, groupPerms, userGroups, lhs, rhs, model_cfg,
                       domains, permRoles, groups, group_seq,
                       parent_of, pending, members>>

\* guardian's assign_perm / remove_perm of a direct grant, between two checks
PureAssignOrRemovePerm ==
    /\ ops < MaxOps
    /\ \E g \in PureGrants :
        /\ userPerms' = IF g \in userPerms THEN userPerms \ {g} ELSE userPerms \cup {g}
        /\ call' = [op |-> "assign_perm"]
        /\ ops' = ops + 1
        /\ UNCHANGED <<groupPerms, userGroups, lhs, rhs, model_cfg,
                       domains, permRoles, groups, group_seq,
                       parent_of, pending, members>>

NextPure ==
    \/ PureCheckObj
    \/ PureCheckGlobal
    \/ PureHasObjectPermission
    \/ PureHasGlobalPermission
    \/ PureAssignOrRemovePerm

SpecPure == InitPure /\ [][NextPure]_vars

-----------------------------------------------------------------------------
(* Specification SpecConcurrent: two requests save the same PermRole at the  *)
(* same time, each running reset_permissions_for_group() one database call   *)
(* at a time                                                                 *)

Requests == {1, 2}

\* the roles a request gives to the PermRole it saves
SavedRoles == {"mem", "view", "con"}

\* a request: its position, its in-memory PermRole instance, and the deltas
\* update_permissions_for_object computed when it read the current grants
IdleRequest == [pc |-> "idle", self |-> NoRow, to_add |-> {}, to_remove |-> {}]

RequestsNow == IF pending = NoPending THEN <<IdleRequest, IdleRequest>> ELSE pending

\* update_permissions_for_object up to the computation of the deltas
compute_deltas(gp, obj, group, short_perm_codes) ==
    LET codenames == get_permission_codenames(obj.cls, short_perm_codes, FALSE)
        expected_perms == {codenames[i] : i \in 1..Len(codenames)}
        current_perms == get_group_perms(gp, group, obj)
    IN [permissions_to_add |-> expected_perms \ current_perms,
        permissions_to_remove |-> current_perms \ expected_perms]

\* domain.save() of a new domain, before any request
ConcurrentSaveNewDomain ==
    /\ pending = NoPending
    /\ SaveNewDomain

\* a request loads a PermRole of domain 1 (the one the other request works on,
\* if it has begun), sets its role and calls save(), which enters
\* reset_permissions_for_group()
RequestBegin ==
    /\ 1 \in domains
    /\ \E p \in Requests, row \in RolesOf(1), role \in SavedRoles :
        /\ RequestsNow[p].pc = "idle"
        /\ row.role \in {"view", "con"}
        /\ \A q \in Requests :
              RequestsNow[q].pc # "idle" => RequestsNow[q].self.group_id = row.group_id
        /\ pending' = [RequestsNow EXCEPT ![p] =
                          [pc |-> "read", self |-> [row EXCEPT !.role = role],
                           to_add |-> {}, to_remove |-> {}]]
        /\ call' = [op |-> "PermRole.save", request |-> p]
        /\ UNCHANGED <<userPerms, groupPerms, userGroups, lhs, rhs, model_cfg,
                       domains, permRoles, groups, group_seq, parent_of, members, ops>>

\* get_group_perms(group, obj) and the two set differences
RequestRead ==
    /\ pending # NoPending
    /\ \E p \in Requests :
        /\ pending[p].pc = "read"
        /\ LET self == pending[p].self
               deltas == compute_deltas(groupPerms, DomainObj(self.domain),
                                        self.group_id, ROLE_DEFINITIONS[self.role])
           IN pending' = [pending EXCEPT ![p] =
                             [pc |-> "apply", self |-> self,
                              to_add |-> deltas.permissions_to_add,
                              to_remove |-> deltas.permissions_to_remove]]
        /\ call' = [op |-> "get_group_perms", request |-> p]
        /\ UNCHANGED <<userPerms, groupPerms, userGroups, lhs, rhs, model_cfg,
                       domains, permRoles, groups, group_seq, parent_of, members, ops>>

\* one assign_perm of `for perm in permissions_to_add`
RequestAssign ==
    /\ pending # NoPending
    /\ \E p \in Requests :
        /\ pending[p].pc = "apply"
        /\ \E perm \in pending[p].to_add :
            /\ groupPerms' = assign_perms(groupPerms, {perm}, pending[p].self.group_id,
                                          DomainObj(pending[p].self.domain))
            /\ pending' = [pending EXCEPT ![p].to_add = @ \ {perm}]
        /\ call' = [op |-> "assign_perm", request |-> p]
        /\ UNCHANGED <<userPerms, userGroups, lhs, rhs, model_cfg,
                       domains, permRoles, groups, group_seq, parent_of, members, ops>>

\* one remove_perm of `for perm in permissions_to_remove`
RequestRemove ==
    /\ pending # NoPending
    /\ \E p \in Requests :
        /\ pending[p].pc = "apply"
        /\ pending[p].to_add = {}
        /\ \E perm \in pending[p].to_remove :
            /\ groupPerms' = remove_perms(groupPerms, {perm}, pending[p].self.group_id,
                                          DomainObj(pending[p].self.domain))
            /\ pending' = [pending EXCEPT ![p].to_remove = @ \ {perm}]
        /\ call' = [op |-> "remove_perm", request |-> p]
        /\ UNCHANGED <<userPerms, userGroups, lhs, rhs, model_cfg,
                       domains, permRoles, groups, group_seq, parent_of, members, ops>>

\* super().save(): the row is written once reset_permissions_for_group() returned
RequestWriteRow ==
    /\ pending # NoPending
    /\ \E p \in Requests :
        /\ pending[p].pc = "apply"
        /\ pending[p].to_add = {}
        /\ pending[p].to_remove = {}
        /\ permRoles' = {r \in permRoles : r.group_id # pending[p].self.group_id}
                            \cup {pending[p].self}
        /\ pending' = [pending EXCEPT ![p].pc = "done"]
        /\ call' = [op |-> "super().save", request |-> p]
        /\ UNCHANGED <<userPerms, groupPerms, userGroups, lhs, rhs, model_cfg,
                       domains, groups, group_seq, parent_of, members, ops>>

NextConcurrent ==
    \/ ConcurrentSaveNewDomain
    \/ RequestBegin
    \/ RequestRead
    \/ RequestAssign
    \/ RequestRemove
    \/ RequestWriteRow

SpecConcurrent == InitDomain /\ [][NextConcurrent]_vars

\* C24: once two concurrent runs of reset_permissions_for_group() on the same
\* PermRole have both completed, whatever the interleaving of their reads of
\* the current grants and of their assignments and removals, the Group holds
\* on the domain exactly the codenames of the role of its PermRole
C24_NoLostUpdate ==
    (pending # NoPending /\ \A p \in Requests : pending[p].pc = "done") =>
        \A r \in permRoles :
            r.group_id = pending[1].self.group_id =>
                {x \in groupPerms : x[1] = r.group_id} = ExpectedGrants({r})

-----------------------------------------------------------------------------
(* Specification SpecGroups: users are added to and removed from the role    *)
(* Groups of saved domains with add_user_to_groups / remove_user_from_groups *)

\* the roles argument: None (none = TRUE) or a list of roles, taken as a set
AllRoles == [none |-> TRUE, list |-> {}]
RoleList(l) == [none |-> FALSE, list |-> l]
RolesArgs == {AllRoles, RoleList({"view"}), RoleList({"view", "con"}), RoleList({"own"})}

\* get_group_ids_for_roles over the PermRole rows of every domain
get_group_ids_for_roles_AnyDomain(rows, self, roles) ==
    LET wanted == IF ~roles.none THEN roles.list
                  ELSE {role_choices[i] : i \in 1..Len(role_choices)}
    IN {r.group_id : r \in {q \in rows : q.role \in wanted}}

\* PermDomain.get_group_ids_for_roles(roles)
get_group_ids_for_roles(rows, self, roles) ==
    LET wanted == IF ~roles.none THEN roles.list
                  ELSE {role_choices[i] : i \in 1..Len(role_choices)}
    IN {r.group_id : r \in {q \in rows : q.role \in wanted /\ q.domain = self}}

\* PermDomain.add_user_to_groups(user, roles): user.groups.add(*group_ids) and
\* the m2m_changed signal it sends
add_user_to_groups(ug, mem, rows, self, user, roles) ==
    LET group_ids == get_group_ids_for_roles(rows, self, roles)
        pk_set == {g \in group_ids : <<user, g>> \notin ug}
        ug1 == ug \cup {<<user, g>> : g \in group_ids}
    IN [userGroups |-> ug1,
        members |-> IF pk_set = {} THEN mem
                    ELSE post_group_membership_changed(mem, ug1, rows, "post_add",
                                                       user, "Group", pk_set)]

\* PermDomain.remove_user_from_groups(user, roles): user.groups.remove(*group_ids)
remove_user_from_groups(ug, mem, rows, self, user, roles) ==
    LET group_ids == get_group_ids_for_roles(rows, self, roles)
        ug1 == ug \ {<<user, g>> : g \in group_ids}
    IN [userGroups |-> ug1,
        members |-> IF group_ids = {} THEN mem
                    ELSE post_group_membership_changed(mem, ug1, rows, "post_remove",
                                                       user, "Group", group_ids)]

\* the record of a call: what it was made with, the ids the lookup gave it and
\* whether the user was in one of these Groups before
GroupsCall(op, d, user, roles) ==
    [op |-> op, domain |-> d, user |-> user, roles |-> roles,
     group_ids |-> get_group_ids_for_roles(permRoles, d, roles),
     was_member |-> \E g \in get_group_ids_for_roles(permRoles, d, roles) :
                        <<user, g>> \in userGroups]

\* domain.add_user_to_groups(user, roles)
AddUserToGroupsOfRoles ==
    /\ ops < MaxCalls
    /\ ops' = ops + 1
    /\ \E d \in domains, user \in UserIds, roles \in RolesArgs :
        LET done == add_user_to_groups(userGroups, members, permRoles, d, user, roles)
        IN /\ userGroups' = done.userGroups
           /\ members' = done.members
           /\ call' = GroupsCall("add_user_to_groups", d, user, roles)
    /\ UNCHANGED <<userPerms, groupPerms, lhs, rhs, model_cfg, domains, permRoles,
                   groups, group_seq, parent_of, pending>>

\* domain.remove_user_from_groups(user, roles)
RemoveUserFromGroupsOfRoles ==
    /\ ops < MaxCalls
    /\ ops' = ops + 1
    /\ \E d \in domains, user \in UserIds, roles \in RolesArgs :
        LET done == remove_user_from_groups(userGroups, members, permRoles, d, user,
                                            roles)
        IN /\ userGroups' = done.userGroups
           /\ members' = done.members
           /\ call' = GroupsCall("remove_user_from_groups", d, user, roles)
    /\ UNCHANGED <<userPerms, groupPerms, lhs, rhs, model_cfg, domains, permRoles,
                   groups, group_seq, parent_of, pending>>

NextGroups == SaveNewDomain \/ AddUserToGroupsOfRoles \/ RemoveUserFromGroupsOfRoles

SpecGroups == InitDomain /\ [][NextGroups]_vars

\* the roles a call asks for
RequestedRoles(roles) ==
    IF roles.none THEN Roles ELSE roles.list

\* the PermRole rows of the call's domain whose role the call asks for
RequestedRows ==
    {r \in RolesOf(call.domain) : r.role \in RequestedRoles(call.roles)}

\* C25: after add_user_to_groups(user, roles) the user is a member of the Group
\* of every PermRole of the domain whose role is in roles (every role when roles
\* is None); after remove_user_from_groups(user, roles) the user is in none of
\* them; and get_group_ids_for_roles gives both calls exactly one Group id per
\* requested role, that of the domain's PermRole of the role
C25_AddThenRemoveMembership ==
    (call.op \in {"add_user_to_groups", "remove_user_from_groups"}) =>
        /\ call.op = "add_user_to_groups" =>
              \A r \in RequestedRows : <<call.user, r.group_id>> \in userGroups
        /\ call.op = "remove_user_from_groups" =>
              \A r \in RequestedRows : <<call.user, r.group_id>> \notin userGroups
        /\ \A role \in RequestedRoles(call.roles) :
              Cardinality({r \in RolesOf(call.domain) :
                              r.role = role /\ r.group_id \in call.group_ids}) = 1
        /\ Cardinality(call.group_ids) = Cardinality(RequestedRoles(call.roles))

\* a user who was in the Groups of a domain has been removed from all of them,
\* while another domain exists
C25_Witness ==
    /\ call.op = "remove_user_from_groups"
    /\ call.roles.none
    /\ call.was_member
    /\ Cardinality(domains) > 1

-----------------------------------------------------------------------------
(* Specification SpecCycle: nodes of a HierarchicalPermRoot tree saved with  *)
(* any saved node as parent, the node itself and its descendants included    *)

\* the loop `while current_id:` of get_ancestor_ids_from_id never ends: it comes
\* back to an id it has been at, and nothing in the loop looks at ancestor_ids
RECURSIVE get_ancestor_ids_from_id_diverges(_, _, _, _)
get_ancestor_ids_from_id_diverges(parents, nodes, current_id, ancestor_ids) ==
    IF current_id = 0 THEN FALSE
    ELSE IF current_id \in ancestor_ids THEN TRUE
    ELSE get_ancestor_ids_from_id_diverges(
             parents, nodes,
             IF current_id \in nodes THEN parents[current_id] ELSE 0,
             ancestor_ids \cup {current_id})

\* the recursion of get_permission_targets never ends: below the node there
\* is a node that is its own descendant
RECURSIVE get_permission_targets_diverges(_, _, _, _)
get_permission_targets_diverges(parents, nodes, n, above) ==
    IF n \in above THEN TRUE
    ELSE \E c \in children(parents, nodes, n) :
             get_permission_targets_diverges(parents, nodes, c, above \cup {n})

\* node.save() with no restriction on the parent. When the walk up the new
\* parent's chain never ends the row has been written and nothing else happens
SaveNodeAnyParent ==
    /\ ops < MaxOps
    /\ call.op = "save" => call.exc # "diverges"
    /\ \E n \in NodePks, parent_id \in domains \cup {0} :
        /\ n \in domains \/ n = Cardinality(domains) + 1
        /\ ops' = ops + 1
        /\ LET parents1 == [parent_of EXCEPT ![n] = parent_id]
               nodes1 == domains \cup {n}
               old_parent_id == IF n \in domains THEN parent_of[n] ELSE 0
               hangs == /\ old_parent_id # parent_id
                        /\ \/ get_ancestor_ids_from_id_diverges(parents1, nodes1,
                                                                old_parent_id, {})
                           \/ get_ancestor_ids_from_id_diverges(parents1, nodes1,
                                                                parent_id, {})
           IN IF hangs
              THEN /\ parent_of' = parents1
                   /\ call' = HierarchyCall("save", n, NoRow) @@
                              [parent |-> parent_id, exc |-> "diverges",
                               resets |-> <<>>]
                   /\ UNCHANGED <<domains, permRoles, groups, groupPerms, group_seq>>
              ELSE LET saved == HierarchicalPermRoot_save(CurrentDb, parent_of, domains,
                                                          n, parent_id)
                   IN /\ domains' = saved.nodes
                      /\ parent_of' = saved.parents
                      /\ permRoles' = saved.db.permRoles
                      /\ groups' = saved.db.groups
                      /\ groupPerms' = saved.db.groupPerms
                      /\ group_seq' = saved.db.group_seq
                      /\ call' = HierarchyCall("save", n, NoRow) @@
                                 [parent |-> parent_id, exc |-> saved.exc,
                                  resets |-> saved.resets]
        /\ UNCHANGED <<userPerms, userGroups, lhs, rhs, model_cfg, pending, members>>

NextCycle == SaveNodeAnyParent

SpecCycle == InitHierarchy /\ [][NextCycle]_vars

\* C28: in every hierarchy that saves lead to, whatever parents they set, the
\* walk of get_ancestor_ids_from_id from any node and the recursion of
\* get_permission_targets on any node come to an end, and so does every save
C28_WalksTerminate ==
    /\ call.op = "save" => call.exc # "diverges"
    /\ \A n \in domains :
          /\ ~get_ancestor_ids_from_id_diverges(parent_of, domains, n, {})
          /\ ~get_permission_targets_diverges(parent_of, domains, n, {})

-----------------------------------------------------------------------------
(* Specification SpecFrame: resets of a domain's role Groups on a store that *)
(* also holds other domains' grants, direct user grants and memberships      *)

ResetOps == {"reset_perm_groups", "reset_permissions_for_group"}

\* the roles whose Groups get grants through guardian and users as members
FrameRoles == {"view"}

FrameGroups == {r.group_id : r \in {q \in permRoles : q.role \in FrameRoles}}

\* the Groups of the PermRole rows of a domain
GroupsOf(d) == {r.group_id : r \in RolesOf(d)}

FrameCall(op, d, gp) == [op |-> op, domain |-> d, changed |-> gp # groupPerms]

\* guardian's assign_perm("delete_team", group, domain) for a Group of any
\* domain, outside the role machinery
FrameAssignGroupPerm ==
    /\ ops < MaxCalls
    /\ call.op \notin ResetOps
    /\ ops' = ops + 1
    /\ \E g \in FrameGroups, d \in domains :
        /\ groupPerms' = assign_perms(groupPerms,
                                      {get_permission_codename("team", "delete", FALSE)},
                                      g, DomainObj(d))
        /\ call' = FrameCall("assign_perm", d, groupPerms)
    /\ UNCHANGED <<userPerms, userGroups, lhs, rhs, model_cfg, domains, permRoles,
                   groups, group_seq, parent_of, pending, members>>

\* guardian's assign_perm("view_team", user, domain): a direct grant
FrameAssignUserPerm ==
    /\ ops < MaxCalls
    /\ call.op \notin ResetOps
    /\ ops' = ops + 1
    /\ \E user \in UserIds, d \in domains :
        /\ userPerms' = userPerms \cup {<<user, Perm("view", "team"), ObjKey(DomainObj(d))>>}
        /\ call' = FrameCall("assign_perm", d, groupPerms)
    /\ UNCHANGED <<groupPerms, userGroups, lhs, rhs, model_cfg, domains, permRoles,
                   groups, group_seq, parent_of, pending, members>>

\* domain.add_user_to_groups(user, roles)
FrameAddUserToGroups ==
    /\ ops < MaxCalls
    /\ call.op \notin ResetOps
    /\ ops' = ops + 1
    /\ \E d \in domains, user \in UserIds, role \in FrameRoles :
        LET done == add_user_to_groups(userGroups, members, permRoles, d, user,
                                       RoleList({role}))
        IN /\ userGroups' = done.userGroups
           /\ members' = done.members
           /\ call' = FrameCall("add_user_to_groups", d, groupPerms)
    /\ UNCHANGED <<userPerms, groupPerms, lhs, rhs, model_cfg, domains, permRoles,
                   groups, group_seq, parent_of, pending>>

\* domain.reset_perm_groups(); the behaviour ends with a reset
FrameResetPermGroups ==
    /\ call.op \notin ResetOps
    /\ \E d \in domains :
        LET db == reset_perm_groups(CurrentDb, d)
        IN /\ permRoles' = db.permRoles
           /\ groups' = db.groups
           /\ groupPerms' = db.groupPerms
           /\ group_seq' = db.group_seq
           /\ call' = FrameCall("reset_perm_groups", d, db.groupPerms)
    /\ UNCHANGED <<userPerms, userGroups, lhs, rhs, model_cfg, domains, parent_of,
                   pending, members, ops>>

\* perm_role.reset_permissions_for_group(clear_existing) on the PermRole of a
\* view or contributor role
FrameResetPermissionsForGroup ==
    /\ call.op \notin ResetOps
    /\ \E row \in {r \in permRoles : r.role \in MemberRoles}, clear_existing \in BOOLEAN :
        LET gp == reset_permissions_for_group(groupPerms, row, clear_existing)
        IN /\ groupPerms' = gp
           /\ call' = FrameCall("reset_permissions_for_group", row.domain, gp)
    /\ UNCHANGED <<userPerms, userGroups, lhs, rhs, model_cfg, domains, permRoles,
                   groups, group_seq, parent_of, pending, members, ops>>

NextFrame ==
    \/ SaveNewDomain
    \/ FrameAssignGroupPerm
    \/ FrameAssignUserPerm
    \/ FrameAddUserToGroups
    \/ FrameResetPermGroups
    \/ FrameResetPermissionsForGroup

SpecFrame == InitDomain /\ [][NextFrame]_vars

====
